---- MODULE Spec2Model ----
(***************************************************************************)
(* Video-generation job execution subsystem of the Creative Studio         *)
(* backend: the dispatcher (veo_controller.generate_videos), the execution *)
(* backends (process pool / Pub/Sub publisher), the Pub/Sub receiver       *)
(* (main.remote_veo_executor_cloud_function_entrypoint) and the job        *)
(* record store.                                                           *)
(*                                                                         *)
(* Text is a sequence of code points, binary data a sequence of bytes      *)
(* (0..255); the wire codecs (base64, UTF-8, JSON) are computed the way    *)
(* the Python runtime computes them.                                       *)
(***************************************************************************)
EXTENDS Integers, Sequences, FiniteSets, Bags, TLC

(***************************************************************************)
(* Bounds of the model.                                                    *)
(***************************************************************************)
\* number of API submissions (one job record each) in a behaviour
MaxJobs == 1
\* number of receiver invocations (deliveries and redeliveries) in a behaviour
MaxDeliveries == 3

(***************************************************************************)
(* Characters.                                                             *)
(***************************************************************************)
\* ord() of the characters that occur in the payloads of the model
Ord(c) ==
    CASE c = "\"" -> 34 [] c = "," -> 44 [] c = ":" -> 58 [] c = "\\" -> 92
      [] c = "_" -> 95 [] c = "{" -> 123 [] c = "}" -> 125 [] c = " " -> 32
      [] c = "=" -> 61 [] c = "!" -> 33 [] c = "/" -> 47 [] c = "+" -> 43
      [] c = "0" -> 48 [] c = "1" -> 49 [] c = "2" -> 50 [] c = "3" -> 51
      [] c = "4" -> 52 [] c = "5" -> 53 [] c = "6" -> 54 [] c = "7" -> 55
      [] c = "8" -> 56 [] c = "9" -> 57
      [] c = "A" -> 65 [] c = "X" -> 88
      [] c = "a" -> 97 [] c = "b" -> 98 [] c = "c" -> 99 [] c = "d" -> 100
      [] c = "e" -> 101 [] c = "f" -> 102 [] c = "g" -> 103 [] c = "h" -> 104
      [] c = "i" -> 105 [] c = "j" -> 106 [] c = "k" -> 107 [] c = "l" -> 108
      [] c = "m" -> 109 [] c = "n" -> 110 [] c = "o" -> 111 [] c = "p" -> 112
      [] c = "q" -> 113 [] c = "r" -> 114 [] c = "s" -> 115 [] c = "t" -> 116
      [] c = "u" -> 117 [] c = "v" -> 118 [] c = "w" -> 119 [] c = "x" -> 120
      [] c = "y" -> 121 [] c = "z" -> 122
      [] c = "E" -> 233   \* U+00E9, a two-byte character in UTF-8

\* a str literal, written as a tuple of one-character strings
Str(cs) == [i \in DOMAIN cs |-> Ord(cs[i])]

(***************************************************************************)
(* Exceptions: a raised exception is the name of its class.                *)
(***************************************************************************)
\* the direct base class of each exception class of the model
BaseOf(cls) ==
    CASE cls = "binascii.Error"     -> "ValueError"
      [] cls = "UnicodeDecodeError" -> "ValueError"
      [] cls = "JSONDecodeError"    -> "ValueError"
      [] cls = "ValidationError"    -> "ValueError"
      [] cls = "ValueError"         -> "Exception"
      [] cls = "TypeError"          -> "Exception"
      [] cls = "AttributeError"     -> "Exception"
      [] cls = "HTTPException"      -> "Exception"
      [] cls = "NotFound"           -> "GoogleAPICallError"
      [] cls = "GoogleAPICallError" -> "Exception"
      [] cls = "DefaultCredentialsError" -> "Exception"
      [] cls = "Exception"          -> "BaseException"
      [] OTHER                      -> "BaseException"

RECURSIVE isinstance(_, _)
\* isinstance(exc, cls): does an `except cls` clause catch exc
isinstance(exc, cls) ==
    IF exc = cls THEN TRUE
    ELSE IF exc = "BaseException" THEN FALSE
    ELSE isinstance(BaseOf(exc), cls)

\* the result of a call: a value, or a raised exception
Ok(v)     == [ok |-> TRUE,  val |-> v, exc |-> "none"]
Raise(e)  == [ok |-> FALSE, val |-> <<>>, exc |-> e]

(***************************************************************************)
(* base64                                                                  *)
(***************************************************************************)
\* the base64 alphabet: index -> character
b2a_char(n) ==
    IF n < 26 THEN 65 + n
    ELSE IF n < 52 THEN 97 + (n - 26)
    ELSE IF n < 62 THEN 48 + (n - 52)
    ELSE IF n = 62 THEN 43 ELSE 47

\* the reverse table: character -> index, 64 for a character outside the alphabet
a2b_index(c) ==
    IF c \in 65..90 THEN c - 65
    ELSE IF c \in 97..122 THEN c - 71
    ELSE IF c \in 48..57 THEN c + 4
    ELSE IF c = 43 THEN 62
    ELSE IF c = 47 THEN 63
    ELSE 64

\* character k of the base64 text of the bytes s
b64encode_char(s, k) ==
    LET q  == (k - 1) \div 4
        r  == (k - 1) % 4
        b0 == s[3 * q + 1]
        b1 == IF 3 * q + 2 <= Len(s) THEN s[3 * q + 2] ELSE 0
        b2 == IF 3 * q + 3 <= Len(s) THEN s[3 * q + 3] ELSE 0
    IN
    IF r = 0 THEN b2a_char(b0 \div 4)
    ELSE IF r = 1 THEN b2a_char((b0 % 4) * 16 + (b1 \div 16))
    ELSE IF r = 2 THEN
        IF 3 * q + 2 > Len(s) THEN 61
        ELSE b2a_char((b1 % 16) * 4 + (b2 \div 64))
    ELSE
        IF 3 * q + 3 > Len(s) THEN 61 ELSE b2a_char(b2 % 64)

\* the base64 wrapping the queue applies to the published bytes: four
\* characters for every three bytes, '=' padded
b64encode(s) ==
    [k \in 1..(4 * ((Len(s) + 2) \div 3)) |-> b64encode_char(s, k)]

\* one character of binascii.a2b_base64 in its default (non-strict) mode:
\* a complete pad sequence ends the parse, a character outside the
\* alphabet is skipped
a2b_step(st, c) ==
    IF st.done THEN st
    ELSE IF c = 61 THEN
        IF st.quad_pos >= 2 /\ st.quad_pos + st.pads + 1 >= 4
        THEN [st EXCEPT !.done = TRUE]
        ELSE [st EXCEPT !.pads = IF st.quad_pos >= 2 THEN @ + 1 ELSE @]
    ELSE IF a2b_index(c) >= 64 THEN st
    ELSE
        LET ch == a2b_index(c) IN
        CASE st.quad_pos = 0 ->
               [st EXCEPT !.quad_pos = 1, !.leftchar = ch, !.pads = 0]
          [] st.quad_pos = 1 ->
               [st EXCEPT !.quad_pos = 2, !.leftchar = ch % 16, !.pads = 0,
                          !.out = Append(@, st.leftchar * 4 + (ch \div 16))]
          [] st.quad_pos = 2 ->
               [st EXCEPT !.quad_pos = 3, !.leftchar = ch % 4, !.pads = 0,
                          !.out = Append(@, st.leftchar * 16 + (ch \div 4))]
          [] st.quad_pos = 3 ->
               [st EXCEPT !.quad_pos = 0, !.leftchar = 0, !.pads = 0,
                          !.out = Append(@, st.leftchar * 64 + ch)]

RECURSIVE a2b_run(_, _, _, _)
\* a2b_step over s[lo..hi], left to right
a2b_run(s, lo, hi, st) ==
    IF lo > hi \/ st.done THEN st
    ELSE IF lo = hi THEN a2b_step(st, s[lo])
    ELSE LET left == a2b_run(s, lo, (lo + hi) \div 2, st) IN
         IF left.done THEN left
         ELSE a2b_run(s, (lo + hi) \div 2 + 1, hi, left)

\* the end of the text: a dangling quad is an error
a2b_finish(st) ==
    IF ~st.done /\ st.quad_pos # 0
    THEN Raise("binascii.Error") ELSE Ok(st.out)

\* binascii.a2b_base64(s)
a2b_base64(s) ==
    a2b_finish(a2b_run(s, 1, Len(s),
                       [quad_pos |-> 0, leftchar |-> 0, pads |-> 0,
                        out |-> << >>, done |-> FALSE]))

\* base64.b64decode(x) of a Python value x: a str must be ASCII (ValueError
\* otherwise), anything that is neither str nor bytes-like is a TypeError
b64decode(x) ==
    IF x.t # "str" THEN Raise("TypeError")
    ELSE IF \E i \in DOMAIN x.s : x.s[i] > 127 THEN Raise("ValueError")
    ELSE a2b_base64(x.s)

(***************************************************************************)
(* UTF-8                                                                   *)
(***************************************************************************)
\* the UTF-8 encoding of one code point (no surrogates occur in the model)
utf8_encode_char(cp) ==
    IF cp < 128 THEN << cp >>
    ELSE IF cp < 2048 THEN << 192 + (cp \div 64), 128 + (cp % 64) >>
    ELSE IF cp < 65536 THEN
        << 224 + (cp \div 4096), 128 + ((cp \div 64) % 64), 128 + (cp % 64) >>
    ELSE
        << 240 + (cp \div 262144), 128 + ((cp \div 4096) % 64),
           128 + ((cp \div 64) % 64), 128 + (cp % 64) >>

RECURSIVE utf8_encode_run(_, _, _)
utf8_encode_run(s, lo, hi) ==
    IF lo > hi THEN << >>
    ELSE IF lo = hi THEN utf8_encode_char(s[lo])
    ELSE utf8_encode_run(s, lo, (lo + hi) \div 2)
         \o utf8_encode_run(s, (lo + hi) \div 2 + 1, hi)

\* str.encode("utf-8")
utf8_encode(s) == utf8_encode_run(s, 1, Len(s))

\* one byte of bytes.decode("utf-8") with errors="strict": `need` bytes of
\* the current character are outstanding and the next must lie in lo..hi;
\* overlong forms, surrogates and stray continuation bytes are errors
utf8_step(st, c) ==
    IF st.err THEN st
    ELSE IF st.need = 0 THEN
        IF c < 128 THEN [st EXCEPT !.out = Append(@, c)]
        ELSE IF c \in 194..223 THEN
            [st EXCEPT !.need = 1, !.cp = c - 192, !.lo = 128, !.hi = 191]
        ELSE IF c \in 224..239 THEN
            [st EXCEPT !.need = 2, !.cp = c - 224,
                       !.lo = IF c = 224 THEN 160 ELSE 128,
                       !.hi = IF c = 237 THEN 159 ELSE 191]
        ELSE IF c \in 240..244 THEN
            [st EXCEPT !.need = 3, !.cp = c - 240,
                       !.lo = IF c = 240 THEN 144 ELSE 128,
                       !.hi = IF c = 244 THEN 143 ELSE 191]
        ELSE [st EXCEPT !.err = TRUE]
    ELSE IF c \in st.lo..st.hi THEN
        LET cp == st.cp * 64 + (c - 128) IN
        IF st.need = 1
        THEN [st EXCEPT !.need = 0, !.cp = 0, !.lo = 128, !.hi = 191,
                        !.out = Append(@, cp)]
        ELSE [st EXCEPT !.need = @ - 1, !.cp = cp, !.lo = 128, !.hi = 191]
    ELSE [st EXCEPT !.err = TRUE]

RECURSIVE utf8_run(_, _, _, _)
\* utf8_step over b[lo..hi], left to right
utf8_run(b, lo, hi, st) ==
    IF lo > hi \/ st.err THEN st
    ELSE IF lo = hi THEN utf8_step(st, b[lo])
    ELSE LET left == utf8_run(b, lo, (lo + hi) \div 2, st) IN
         IF left.err THEN left
         ELSE utf8_run(b, (lo + hi) \div 2 + 1, hi, left)

\* the end of the bytes: a truncated character is an error
utf8_finish(st) ==
    IF st.err \/ st.need # 0
    THEN Raise("UnicodeDecodeError") ELSE Ok(st.out)

\* bytes.decode("utf-8")
utf8_decode(b) ==
    utf8_finish(utf8_run(b, 1, Len(b),
                         [need |-> 0, cp |-> 0, lo |-> 128, hi |-> 191,
                          out |-> << >>, err |-> FALSE]))

(***************************************************************************)
(* JSON.  A JSON value is a record tagged with its type t: "str" (s, code   *)
(* points), "int" (n), "null", "bool" (b), "list" (xs, values) and "dict"  *)
(* (ms, a sequence of [k, v] members in document order).  The grammar      *)
(* covers what the payloads of the model use: no floats, no NaN.  The text *)
(* is cut into tokens, then the tokens are parsed.                         *)
(***************************************************************************)
JStr(s)   == [t |-> "str",  s |-> s]
JInt(n)   == [t |-> "int",  n |-> n]
JNull     == [t |-> "null", z |-> 0]
JBool(b)  == [t |-> "bool", b |-> b]
JList(xs) == [t |-> "list", xs |-> xs]
JDict(ms) == [t |-> "dict", ms |-> ms]

IsWs(c)     == c \in {32, 9, 10, 13}
IsDigit(c)  == c \in 48..57
IsLetter(c) == c \in 97..122
IsPunct(c)  == c \in {123, 125, 91, 93, 58, 44}
HexVal(c)   == IF c \in 48..57 THEN c - 48
               ELSE IF c \in 97..102 THEN c - 87
               ELSE IF c \in 65..70 THEN c - 55 ELSE 16

\* a token: a punctuation character, or a scalar value
Punct(c)  == [p |-> c,  val |-> JNull]
Scalar(v) == [p |-> 0,  val |-> v]

RECURSIVE digits_value(_, _, _)
\* the value of the decimal digits d[i..]
digits_value(d, i, n) ==
    IF i > Len(d) THEN n ELSE digits_value(d, i + 1, n * 10 + (d[i] - 48))

\* the token of a finished number: -?(0|[1-9][0-9]*)
number_token(acc) ==
    LET neg == acc[1] = 45
        d   == IF neg THEN Tail(acc) ELSE acc
    IN IF Len(d) = 0 \/ (d[1] = 48 /\ Len(d) > 1) THEN << >>
       ELSE << Scalar(JInt(IF neg THEN 0 - digits_value(d, 1, 0)
                           ELSE digits_value(d, 1, 0))) >>

\* the token of a finished word: null, true or false
literal_token(acc) ==
    IF acc = Str(<<"n","u","l","l">>) THEN << Scalar(JNull) >>
    ELSE IF acc = Str(<<"t","r","u","e">>) THEN << Scalar(JBool(TRUE)) >>
    ELSE IF acc = Str(<<"f","a","l","s","e">>) THEN << Scalar(JBool(FALSE)) >>
    ELSE << >>

\* a character met outside a token
lex_top(st, c) ==
    IF IsWs(c) THEN st
    ELSE IF IsPunct(c) THEN [st EXCEPT !.toks = Append(@, Punct(c))]
    ELSE IF c = 34 THEN [st EXCEPT !.mode = "str", !.acc = << >>]
    ELSE IF c = 45 \/ IsDigit(c) THEN [st EXCEPT !.mode = "num", !.acc = << c >>]
    ELSE IF IsLetter(c) THEN [st EXCEPT !.mode = "lit", !.acc = << c >>]
    ELSE [st EXCEPT !.err = TRUE]

\* the number or word being read has given the token tok, or none
lex_emit(st, tok) ==
    IF Len(tok) = 0 THEN [st EXCEPT !.err = TRUE]
    ELSE [st EXCEPT !.mode = "top", !.acc = << >>, !.toks = @ \o tok]

\* the number or word being read ends here
lex_close(st) ==
    lex_emit(st, IF st.mode = "num" THEN number_token(st.acc)
                 ELSE literal_token(st.acc))

\* the character that ended a number or a word is read outside a token
lex_after(closed, c) == IF closed.err THEN closed ELSE lex_top(closed, c)

\* one character of the scanner; inside a string as json.decoder.scanstring
\* (strict) reads it
lex_step(st, c) ==
    IF st.err THEN st
    ELSE IF st.mode = "top" THEN lex_top(st, c)
    ELSE IF st.mode = "str" THEN
        IF c = 34
        THEN [st EXCEPT !.mode = "top", !.acc = << >>,
                        !.toks = Append(@, Scalar(JStr(st.acc)))]
        ELSE IF c = 92 THEN [st EXCEPT !.mode = "esc"]
        ELSE IF c < 32 THEN [st EXCEPT !.err = TRUE]
        ELSE [st EXCEPT !.acc = Append(@, c)]
    ELSE IF st.mode = "esc" THEN
        IF c \in {34, 92, 47} THEN [st EXCEPT !.mode = "str", !.acc = Append(@, c)]
        ELSE IF c = 98  THEN [st EXCEPT !.mode = "str", !.acc = Append(@, 8)]
        ELSE IF c = 102 THEN [st EXCEPT !.mode = "str", !.acc = Append(@, 12)]
        ELSE IF c = 110 THEN [st EXCEPT !.mode = "str", !.acc = Append(@, 10)]
        ELSE IF c = 114 THEN [st EXCEPT !.mode = "str", !.acc = Append(@, 13)]
        ELSE IF c = 116 THEN [st EXCEPT !.mode = "str", !.acc = Append(@, 9)]
        ELSE IF c = 117 THEN [st EXCEPT !.mode = "hex", !.hexn = 0, !.hex = 0]
        ELSE [st EXCEPT !.err = TRUE]
    ELSE IF st.mode = "hex" THEN
        IF HexVal(c) >= 16 THEN [st EXCEPT !.err = TRUE]
        ELSE IF st.hexn = 3
        THEN [st EXCEPT !.mode = "str", !.hexn = 0, !.hex = 0,
                        !.acc = Append(@, st.hex * 16 + HexVal(c))]
        ELSE [st EXCEPT !.hexn = @ + 1, !.hex = @ * 16 + HexVal(c)]
    ELSE IF st.mode = "num" THEN
        IF IsDigit(c) THEN [st EXCEPT !.acc = Append(@, c)]
        ELSE lex_after(lex_close(st), c)
    ELSE
        IF IsLetter(c) THEN [st EXCEPT !.acc = Append(@, c)]
        ELSE lex_after(lex_close(st), c)

RECURSIVE lex_run(_, _, _, _)
\* lex_step over s[lo..hi], left to right
lex_run(s, lo, hi, st) ==
    IF lo > hi \/ st.err THEN st
    ELSE IF lo = hi THEN lex_step(st, s[lo])
    ELSE LET left == lex_run(s, lo, (lo + hi) \div 2, st) IN
         IF left.err THEN left
         ELSE lex_run(s, (lo + hi) \div 2 + 1, hi, left)

\* the end of the text: a number or word being read ends here, a string
\* being read stays unfinished
lex_finish(st) ==
    IF st.err \/ st.mode \in {"str", "esc", "hex"} THEN st
    ELSE IF st.mode = "top" THEN st
    ELSE lex_close(st)

\* the tokens of a text; an unfinished string is an error
tokens(text) ==
    lex_finish(lex_run(text, 1, Len(text),
                       [mode |-> "top", acc |-> << >>, toks |-> << >>,
                        hexn |-> 0, hex |-> 0, err |-> FALSE]))

\* the result of a parse step: the value and the index after it
At(v, i) == [ok |-> TRUE,  val |-> v, pos |-> i]
Bad      == [ok |-> FALSE, val |-> JNull, pos |-> 0]

\* is token i of tk the punctuation character c
IsP(tk, i, c) == i <= Len(tk) /\ tk[i].p = c

RECURSIVE scan_once(_, _), JSONObject(_, _, _), JSONArray(_, _, _)
\* json.scanner.py_scanner._scan_once: the value that starts at token i
scan_once(tk, i) ==
    IF i > Len(tk) THEN Bad
    ELSE IF tk[i].p = 0 THEN At(tk[i].val, i + 1)
    ELSE IF tk[i].p = 123 THEN
        IF IsP(tk, i + 1, 125) THEN At(JDict(<< >>), i + 2)
        ELSE JSONObject(tk, i + 1, << >>)
    ELSE IF tk[i].p = 91 THEN
        IF IsP(tk, i + 1, 93) THEN At(JList(<< >>), i + 2)
        ELSE JSONArray(tk, i + 1, << >>)
    ELSE Bad

\* json.decoder.JSONObject: token i is where a member name must be
JSONObject(tk, i, members) ==
    IF i > Len(tk) \/ tk[i].p # 0 THEN Bad
    ELSE IF tk[i].val.t # "str" THEN Bad
    ELSE IF ~IsP(tk, i + 1, 58) THEN Bad
    ELSE LET x == scan_once(tk, i + 2) IN
    IF ~x.ok THEN Bad
    ELSE LET ms == Append(members, [k |-> tk[i].val.s, v |-> x.val]) IN
    IF IsP(tk, x.pos, 125) THEN At(JDict(ms), x.pos + 1)
    ELSE IF IsP(tk, x.pos, 44) THEN JSONObject(tk, x.pos + 1, ms)
    ELSE Bad

\* json.decoder.JSONArray: token i is where an element must be
JSONArray(tk, i, elems) ==
    LET x == scan_once(tk, i) IN
    IF ~x.ok THEN Bad
    ELSE LET xs == Append(elems, x.val) IN
    IF IsP(tk, x.pos, 93) THEN At(JList(xs), x.pos + 1)
    ELSE IF IsP(tk, x.pos, 44) THEN JSONArray(tk, x.pos + 1, xs)
    ELSE Bad

\* the value x was read from the tokens tk: nothing may follow it
json_loads_end(tk, x) ==
    IF x.ok /\ x.pos = Len(tk) + 1 THEN Ok(x.val)
    ELSE Raise("JSONDecodeError")

\* json.loads of a text cut into tokens
json_loads_tokens(st) ==
    IF st.err \/ st.mode # "top" THEN Raise("JSONDecodeError")
    ELSE json_loads_end(st.toks, scan_once(st.toks, 1))

\* json.loads(text): one value and nothing else but whitespace
json_loads(text) == json_loads_tokens(tokens(text))

RECURSIVE json_quote_run(_, _, _)
json_quote_run(s, lo, hi) ==
    IF lo > hi THEN << >>
    ELSE IF lo = hi
    THEN (IF s[lo] \in {34, 92} THEN << 92, s[lo] >> ELSE << s[lo] >>)
    ELSE json_quote_run(s, lo, (lo + hi) \div 2)
         \o json_quote_run(s, (lo + hi) \div 2 + 1, hi)

\* json_quote with a bug: nothing is escaped
json_quote_unescaped(s) == << 34 >> \o s \o << 34 >>

\* a str as model_dump_json writes it: quoted, '"' and '\' escaped,
\* characters outside ASCII written as they are
json_quote(s) == << 34 >> \o json_quote_run(s, 1, Len(s)) \o << 34 >>

(***************************************************************************)
(* Python values (dict, str, int, None) are written as JSON values.        *)
(***************************************************************************)
RECURSIVE dict_get_from(_, _, _, _)
dict_get_from(ms, i, key, default) ==
    IF i = 0 THEN default
    ELSE IF ms[i].k = key THEN ms[i].v
    ELSE dict_get_from(ms, i - 1, key, default)

\* d.get(key, default): of two members with the same name the last one wins
dict_get(d, key, default) == dict_get_from(d.ms, Len(d.ms), key, default)

\* the member names of a dict
dict_keys(d) == { d.ms[i].k : i \in DOMAIN d.ms }

\* `not x`
falsy(x) ==
    \/ x.t = "null"
    \/ x.t = "bool" /\ ~x.b
    \/ x.t = "int" /\ x.n = 0
    \/ x.t = "str" /\ Len(x.s) = 0
    \/ x.t = "list" /\ Len(x.xs) = 0
    \/ x.t = "dict" /\ Len(x.ms) = 0

(***************************************************************************)
(* The Queued Job Envelope and the Job Request.                            *)
(***************************************************************************)
K_message       == Str(<<"m","e","s","s","a","g","e">>)
K_data          == Str(<<"d","a","t","a">>)
K_media_item_id == Str(<<"m","e","d","i","a","_","i","t","e","m","_","i","d">>)
K_request_dto   == Str(<<"r","e","q","u","e","s","t","_","d","t","o">>)
K_model         == Str(<<"m","o","d","e","l">>)
K_prompt        == Str(<<"p","r","o","m","p","t">>)

\* BaseDto_extra with a bug: the default of pydantic
BaseDto_extra_ignore == "ignore"

\* what the model configuration of the DTO base class does with a member
\* the schema does not name
BaseDto_extra == "forbid"

\* no member outside `known`, where extra members are forbidden
extra_ok(d, known) == BaseDto_extra = "forbid" => dict_keys(d) \subseteq known

\* CreateVeoDto.model_validate: the Job Request, a target model and a prompt
CreateVeoDto_validate(d) ==
    IF /\ d.t = "dict"
       /\ dict_get(d, K_model, JNull).t = "str"
       /\ dict_get(d, K_prompt, JNull).t = "str"
       /\ extra_ok(d, {K_model, K_prompt})
    THEN Ok([model  |-> dict_get(d, K_model, JNull).s,
             prompt |-> dict_get(d, K_prompt, JNull).s])
    ELSE Raise("ValidationError")

\* SubmitRemoteVeoJobDto.model_validate: media_item_id: str and
\* request_dto: CreateVeoDto, both required
SubmitRemoteVeoJobDto_validate(d) ==
    IF /\ d.t = "dict"
       /\ dict_get(d, K_media_item_id, JNull).t = "str"
       /\ extra_ok(d, {K_media_item_id, K_request_dto})
       /\ CreateVeoDto_validate(dict_get(d, K_request_dto, JNull)).ok
    THEN Ok([media_item_id |-> dict_get(d, K_media_item_id, JNull).s,
             request_dto   |->
                 CreateVeoDto_validate(dict_get(d, K_request_dto, JNull)).val])
    ELSE Raise("ValidationError")

\* CreateVeoDto.model_dump_json(): compact, members in declaration order
CreateVeoDto_dump_json(r) ==
    Str(<<"{">>) \o json_quote(K_model) \o Str(<<":">>) \o json_quote(r.model)
    \o Str(<<",">>) \o json_quote(K_prompt) \o Str(<<":">>)
    \o json_quote(r.prompt) \o Str(<<"}">>)

\* SubmitRemoteVeoJobDto.model_dump_json()
model_dump_json(e) ==
    Str(<<"{">>) \o json_quote(K_media_item_id) \o Str(<<":">>)
    \o json_quote(e.media_item_id) \o Str(<<",">>)
    \o json_quote(K_request_dto) \o Str(<<":">>)
    \o CreateVeoDto_dump_json(e.request_dto) \o Str(<<"}">>)

(***************************************************************************)
(* The receiver, up to the call of the generation routine.                 *)
(***************************************************************************)
\* what an invocation of the receiver comes to: it returns (body, code),
\* it raises, or it goes on to process the validated envelope
Return(code)  == [kind |-> "return",  code |-> code, exc |-> "none",
                  event_model |-> <<>>]
Raised(e)     == [kind |-> "raise",   code |-> 0,    exc |-> e,
                  event_model |-> <<>>]
Process(m)    == [kind |-> "process", code |-> 0,    exc |-> "none",
                  event_model |-> m]

\* except_clauses with a bug: no clause for ValidationError
except_clauses_no_validation_clause(e) ==
    IF isinstance(e, "JSONDecodeError") \/ isinstance(e, "UnicodeDecodeError")
    THEN Return(200)
    ELSE Raised(e)

\* except_clauses with a bug: the last clause acknowledges
except_clauses_swallow(e) ==
    IF isinstance(e, "JSONDecodeError") \/ isinstance(e, "UnicodeDecodeError")
    THEN Return(200)
    ELSE IF isinstance(e, "ValidationError") THEN Return(200)
    ELSE Return(200)

\* the except clauses of the receiver, in their order
except_clauses(e) ==
    IF isinstance(e, "JSONDecodeError") \/ isinstance(e, "UnicodeDecodeError")
    THEN Return(200)
    ELSE IF isinstance(e, "ValidationError") THEN Return(200)
    ELSE Raised(e)

\* try_block_validated with a bug: a model that failed validation is
\* processed as an empty one
try_block_validated_goes_on(event_model) ==
    IF ~event_model.ok
    THEN Process([media_item_id |-> << >>, request_dto |-> << >>])
    ELSE Process(event_model.val)

\* the try block after SubmitRemoteVeoJobDto.model_validate(data_dict)
try_block_validated(event_model) ==
    IF ~event_model.ok THEN except_clauses(event_model.exc)
    ELSE Process(event_model.val)

\* the try block after json.loads(message_data_decoded)
try_block_parsed(data_dict) ==
    IF ~data_dict.ok THEN except_clauses(data_dict.exc)
    ELSE try_block_validated(SubmitRemoteVeoJobDto_validate(data_dict.val))

\* the try block after .decode("utf-8")
try_block_decoded(message_data_decoded) ==
    IF ~message_data_decoded.ok THEN except_clauses(message_data_decoded.exc)
    ELSE try_block_parsed(json_loads(message_data_decoded.val))

\* the try block after base64.b64decode(message_data_encoded)
try_block_bytes(bytes) ==
    IF ~bytes.ok THEN except_clauses(bytes.exc)
    ELSE try_block_decoded(utf8_decode(bytes.val))

\* the try block of the receiver: base64, UTF-8, JSON, schema
try_block(message_data_encoded) ==
    try_block_bytes(b64decode(message_data_encoded))

\* cloud_event.data.get("message", {}).get("data"): .get of something
\* that is not a dict is an AttributeError
message_data(cloud_event_data) ==
    IF cloud_event_data.t # "dict" THEN Raise("AttributeError")
    ELSE LET message == dict_get(cloud_event_data, K_message, JDict(<<>>)) IN
         IF message.t # "dict" THEN Raise("AttributeError")
         ELSE Ok(dict_get(message, K_data, JNull))

\* the receiver after line 66 gave message_data_encoded or raised
entrypoint_data(message_data_encoded) ==
    IF ~message_data_encoded.ok THEN Raised(message_data_encoded.exc)
    ELSE IF falsy(message_data_encoded.val) THEN Return(400)
    ELSE try_block(message_data_encoded.val)

\* remote_veo_executor_cloud_function_entrypoint, before it processes
entrypoint(cloud_event_data) == entrypoint_data(message_data(cloud_event_data))

(***************************************************************************)
(* The job record store, the execution backends and the dispatcher.        *)
(***************************************************************************)
\* ProcessPoolExecutor(max_workers=4)
max_workers == 4

\* the Job Requests of the model: a plain prompt, and one with a character
\* outside ASCII and a character that JSON escapes
Requests ==
    { [model |-> Str(<<"X">>), prompt |-> Str(<<"a">>)],
      [model |-> Str(<<"X">>), prompt |-> Str(<<"E", "\"">>)] }

\* what a generation call comes to: result URIs (possibly none), or an
\* exception with its text (possibly empty)
GenOutcomes ==
    { [ok |-> TRUE,  uris |-> <<1, 2>>, error |-> ""],
      [ok |-> TRUE,  uris |-> <<>>,     error |-> ""],
      [ok |-> FALSE, uris |-> <<>>,     error |-> "boom"],
      [ok |-> FALSE, uris |-> <<>>,     error |-> ""] }

\* the values of VEO_EXECUTOR_TYPE: the two members of ExecutorTypeEnum and
\* a value that is neither
ExecutorTypes == {"local", "remote", "other"}

\* the message a push subscription delivers for published bytes: the data
\* base64-encoded under message.data
PushEvent(message_bytes) ==
    JDict(<< [k |-> K_message,
              v |-> JDict(<< [k |-> K_data,
                              v |-> JStr(b64encode(message_bytes))] >>)] >>)

\* a message whose message.data is the given value
EventWithData(x) ==
    JDict(<< [k |-> K_message, v |-> JDict(<< [k |-> K_data, v |-> x] >>)] >>)

\* a valid envelope with one more member, "x": 1
ExtraFieldEvent ==
    PushEvent(utf8_encode(
        Str(<<"{">>) \o json_quote(K_media_item_id) \o Str(<<":">>)
        \o json_quote(Str(<<"1">>)) \o Str(<<",">>)
        \o json_quote(K_request_dto) \o Str(<<":">>)
        \o CreateVeoDto_dump_json([model |-> Str(<<"X">>),
                                   prompt |-> Str(<<"a">>)])
        \o Str(<<",">>) \o json_quote(Str(<<"x">>)) \o Str(<<":", "1", "}">>)))

\* messages other publishers put on the topic
ForeignEvents ==
    { JDict(<<>>),                                      \* no message
      JDict(<< [k |-> K_message, v |-> JNull] >>),      \* message: null
      JDict(<< [k |-> K_message, v |-> JDict(<<>>)] >>),\* no data
      EventWithData(JStr(<<>>)),                        \* data: ""
      EventWithData(JInt(5)),                           \* data: 5
      EventWithData(JStr(Str(<<"a","b","c">>))),        \* dangling quad
      EventWithData(JStr(Str(<<"E">>))),                \* str outside ASCII
      EventWithData(JStr(Str(<<"!","!">>))),            \* decodes to b""
      PushEvent(<< 255 >>),                             \* not UTF-8
      PushEvent(Str(<<"{">>)),                          \* not JSON
      PushEvent(Str(<<"{","\"","a","\"",":","1","}">>)),\* not an envelope
      ExtraFieldEvent                                   \* one member more
    }

\* a new job record: PENDING, no results, no error
NewRecord(id, request_dto, prompt) ==
    [id |-> id, status |-> "PENDING", gcs_uris |-> <<>>, error_message |-> "",
     model |-> request_dto.model, prompt |-> prompt]

\* the id given to the next record: "1", "2", ...
new_id(st) == << 48 + Cardinality(DOMAIN st) + 1 >>

\* TerminalOf with a bug: a call that returned is a success, whatever it
\* returned
TerminalOf_completed_without_output(rec, outcome) ==
    IF outcome.ok
    THEN [rec EXCEPT !.status = "COMPLETED", !.gcs_uris = outcome.uris]
    ELSE [rec EXCEPT !.status = "FAILED",
                     !.error_message =
                         IF outcome.error = "" THEN "generation failed"
                         ELSE outcome.error]

\* TerminalOf with a bug: the error detail is the text of the exception,
\* whatever it is
TerminalOf_error_as_raised(rec, outcome) ==
    IF outcome.ok /\ Len(outcome.uris) > 0
    THEN [rec EXCEPT !.status = "COMPLETED", !.gcs_uris = outcome.uris]
    ELSE [rec EXCEPT !.status = "FAILED", !.error_message = outcome.error]

\* the terminal state a generation outcome asks for
TerminalOf(rec, outcome) ==
    IF outcome.ok /\ Len(outcome.uris) > 0
    THEN [rec EXCEPT !.status = "COMPLETED", !.gcs_uris = outcome.uris]
    ELSE [rec EXCEPT !.status = "FAILED",
                     !.error_message =
                         IF outcome.ok THEN "no output"
                         ELSE IF outcome.error = "" THEN "generation failed"
                         ELSE outcome.error]

\* terminal_transition with a bug: the status is not looked at
terminal_transition_unchecked(st, media_item_id, outcome) ==
    IF media_item_id \notin DOMAIN st THEN [store |-> st, wrote |-> FALSE]
    ELSE [store |-> [st EXCEPT ![media_item_id] = TerminalOf(@, outcome)],
          wrote |-> TRUE]

\* the terminal transition: applied to a PENDING record only, a late or
\* duplicate completion is discarded
terminal_transition(st, media_item_id, outcome) ==
    IF media_item_id \notin DOMAIN st THEN [store |-> st, wrote |-> FALSE]
    ELSE IF st[media_item_id].status # "PENDING"
    THEN [store |-> st, wrote |-> FALSE]
    ELSE [store |-> [st EXCEPT ![media_item_id] = TerminalOf(@, outcome)],
          wrote |-> TRUE]

\* _process_video_in_background(media_item_id, request_dto): the generation
\* call has come to `outcome`; its success or failure updates the record
process_video_in_background(st, media_item_id, request_dto, outcome) ==
    terminal_transition(st, media_item_id, outcome)

(***************************************************************************)
(* Execution backends.                                                     *)
(***************************************************************************)
\* what publishing comes to: the client is built and the message published,
\* or building the client or publishing raises
PublishOutcomes ==
    { [client |-> "ok", publish |-> "ok"],
      [client |-> "ok", publish |-> "NotFound"],
      [client |-> "ok", publish |-> "Exception"],
      [client |-> "GoogleAPICallError", publish |-> "ok"],
      [client |-> "DefaultCredentialsError", publish |-> "ok"] }

\* RemoteVeoExecutor._publish_pydantic_model_to_pubsub: the topic after the
\* call; an exception of the client that is not a GoogleAPICallError leaves
\* the method, every other failure is logged and None returned
publish_pydantic_model_to_pubsub(tp, event_data, po) ==
    IF po.client # "ok" THEN
        IF isinstance(po.client, "GoogleAPICallError")
        THEN [topic |-> tp, result |-> Ok("None")]
        ELSE [topic |-> tp, result |-> Raise(po.client)]
    ELSE LET message_bytes == utf8_encode(model_dump_json(event_data)) IN
        IF po.publish = "ok"
        THEN [topic |-> tp \cup {PushEvent(message_bytes)},
              result |-> Ok("message_id")]
        ELSE [topic |-> tp, result |-> Ok("None")]

\* RemoteVeoExecutor_submit with a bug: the envelope is given the
\* rewritten prompt, not the one of the request it was called with
RemoteVeoExecutor_submit_other_prompt(tp, media_item_id, request_dto, po) ==
    LET r == publish_pydantic_model_to_pubsub(tp,
                 [media_item_id |-> media_item_id,
                  request_dto |->
                      [request_dto EXCEPT !.prompt = @ \o Str(<<"!">>)]], po)
    IN [topic |-> r.topic,
        result |-> IF r.result.ok THEN Ok("None") ELSE r.result]

\* RemoteVeoExecutor.submit: publishes the envelope, returns None
RemoteVeoExecutor_submit(tp, media_item_id, request_dto, po) ==
    LET r == publish_pydantic_model_to_pubsub(tp,
                 [media_item_id |-> media_item_id,
                  request_dto |-> request_dto], po)
    IN [topic |-> r.topic,
        result |-> IF r.result.ok THEN Ok("None") ELSE r.result]

\* get_executor with a bug: the two entries of the dict are swapped
get_executor_swapped(veo_executor_type) ==
    IF veo_executor_type = "local" THEN "RemoteVeoExecutor"
    ELSE IF veo_executor_type = "remote" THEN "process_pool"
    ELSE "ExecutorTypeEnum.LOCAL_VEO_EXECUTOR_TYPE"

\* VeoExecutorService(process_pool).get_executor(): the dict lookup with
\* its default
get_executor(veo_executor_type) ==
    IF veo_executor_type = "local" THEN "process_pool"
    ELSE IF veo_executor_type = "remote" THEN "RemoteVeoExecutor"
    ELSE "ExecutorTypeEnum.LOCAL_VEO_EXECUTOR_TYPE"

\* executor_submit with a bug: the pool gives a future for a work item it
\* does not keep
executor_submit_drops(executor, q, tp, media_item_id, request_dto, po) ==
    IF executor = "process_pool" THEN
        [pool_queue |-> q, topic |-> tp, result |-> Ok("Future")]
    ELSE IF executor = "RemoteVeoExecutor" THEN
        LET r == RemoteVeoExecutor_submit(tp, media_item_id, request_dto, po)
        IN [pool_queue |-> q, topic |-> r.topic, result |-> r.result]
    ELSE [pool_queue |-> q, topic |-> tp, result |-> Raise("AttributeError")]

\* executor.submit(...): the pool queues the work item, the remote executor
\* publishes it, an enum member has no submit
executor_submit(executor, q, tp, media_item_id, request_dto, po) ==
    IF executor = "process_pool" THEN
        [pool_queue |-> Append(q, [media_item_id |-> media_item_id,
                                   request_dto |-> request_dto]),
         topic |-> tp, result |-> Ok("Future")]
    ELSE IF executor = "RemoteVeoExecutor" THEN
        LET r == RemoteVeoExecutor_submit(tp, media_item_id, request_dto, po)
        IN [pool_queue |-> q, topic |-> r.topic, result |-> r.result]
    ELSE [pool_queue |-> q, topic |-> tp, result |-> Raise("AttributeError")]

\* what prompt enhancement comes to: the rewritten prompt, or an exception
EnhanceOutcomes == {"ok", "Exception", "ValueError"}

\* the rewritten prompt
enhance_prompt(prompt) == prompt \o Str(<<"!">>)

\* the record after submit has returned or raised: a failure reported by
\* submit marks the record FAILED
submitted_record(rec, result) ==
    IF result.ok THEN rec
    ELSE [rec EXCEPT !.status = "FAILED", !.error_message = result.exc]

\* start_video_generation_job with a bug: the job is handed to the
\* executor and the record is left for the job to create
start_video_generation_job_no_record(st, q, tp, request_dto, executor, enh, po) ==
    IF enh # "ok" THEN
        [store |-> st, pool_queue |-> q, topic |-> tp, result |-> Raise(enh)]
    ELSE
        LET id  == new_id(st)
            rec == NewRecord(id, request_dto, enhance_prompt(request_dto.prompt))
            sub == executor_submit(executor, q, tp, id, request_dto, po)
        IN [store |-> st,
            pool_queue |-> sub.pool_queue, topic |-> sub.topic,
            result |-> IF sub.result.ok THEN Ok(rec) ELSE sub.result]

\* VeoService.start_video_generation_job: enhance the prompt, create the
\* PENDING record, hand the job to the executor, return the record
start_video_generation_job(st, q, tp, request_dto, executor, enh, po) ==
    IF enh # "ok" THEN
        [store |-> st, pool_queue |-> q, topic |-> tp, result |-> Raise(enh)]
    ELSE
        LET id  == new_id(st)
            rec == NewRecord(id, request_dto, enhance_prompt(request_dto.prompt))
            sub == executor_submit(executor, q, tp, id, request_dto, po)
        IN [store |-> st @@ (id :> submitted_record(rec, sub.result)),
            pool_queue |-> sub.pool_queue, topic |-> sub.topic,
            result |-> IF sub.result.ok THEN Ok(rec) ELSE sub.result]

\* the except clauses of generate_videos: an HTTPException is passed on, a
\* ValueError is a 400, anything else a 500
generate_videos_except(e) ==
    IF isinstance(e, "HTTPException")
    THEN [kind |-> "http_error", status_code |-> 0, body |-> <<>>]
    ELSE IF isinstance(e, "ValueError")
    THEN [kind |-> "http_error", status_code |-> 400, body |-> <<>>]
    ELSE [kind |-> "http_error", status_code |-> 500, body |-> <<>>]

\* entrypoint_processed with a bug: the receiver fails after the routine
entrypoint_processed_raises == Raised("Exception")

\* the end of the receiver: the routine has returned
entrypoint_processed == Return(200)

\* does the response acknowledge the message: a returned success status
\* code does, a raise or any other status code leaves it to be redelivered
Acknowledges(r) == r.kind = "return" /\ r.code \in 200..299

(***************************************************************************)
(* State.                                                                  *)
(***************************************************************************)
VARIABLES
    cfg,            \* config_service.VEO_EXECUTOR_TYPE
    image_call,     \* the call of BaseImageService.generate_images in progress
    media_repo,     \* the media items MediaRepository.save has stored
    app_state,      \* app.state of the Mesop front end: user_info
    sessions,       \* the AppState of each browser session of the front end
    lifespan,       \* where lifespan is: serving, in shutdown, or at its end
    retrying,       \* the call of a retried method of GeminiService in progress
    store,          \* the job record store: record id -> record
    handler,        \* the generate_videos call in progress
    n_calls,        \* the number of generate_videos calls so far
    api_response,   \* the latest response of generate_videos
    pool_queue,     \* work items the process pool has not started
    pool_running,   \* work items a pool worker is running
    topic,          \* the messages the dispatcher published to the topic
    n_deliveries,   \* the number of receiver invocations so far
    processing,     \* bag of messages whose receiver is in the routine
    response,       \* what the latest finished receiver invocation came to
    transitions     \* record id -> number of terminal writes applied to it

vars == << cfg, image_call, media_repo, app_state, sessions, lifespan, retrying, store, handler, n_calls, api_response, pool_queue,
           pool_running, topic, n_deliveries, processing, response,
           transitions >>

Idle == [pc |-> "idle", placeholder_item |-> << >>]

\* no retried method has been called
NoCall == [call |-> << >>, attempts |-> << >>, done |-> "idle"]

\* no response yet
NoApiResponse == [kind |-> "none", status_code |-> 0, body |-> << >>]
NoResponse ==
    [event |-> JNull, kind |-> "none", code |-> 0, exc |-> "none",
     invoked |-> 0, applied |-> FALSE]

\* no call of generate_images
NoImageCall ==
    [pc |-> "idle", request_dto |-> << >>, user_email |-> "",
     submitted |-> << >>, attempts |-> << >>]

\* the users of the front end
Users == {"a", "b"}

\* app.state before any auth request: it has no user_info
NoUserInfo == [set |-> FALSE, email |-> "", agent |-> ""]

\* a session before any page load
NoSession ==
    [loaded |-> FALSE, user_email |-> "", user_agent |-> "",
     auth |-> NoUserInfo]

Init ==
    /\ cfg \in ExecutorTypes
    /\ image_call = NoImageCall
    /\ media_repo = << >>
    /\ app_state = NoUserInfo
    /\ sessions = [u \in Users |-> NoSession]
    /\ lifespan = "serving"
    /\ retrying = NoCall
    /\ store = << >>
    /\ handler = Idle
    /\ n_calls = 0
    /\ api_response = NoApiResponse
    /\ pool_queue = << >>
    /\ pool_running = {}
    /\ topic = {}
    /\ n_deliveries = 0
    /\ processing = EmptyBag
    /\ response = NoResponse
    /\ transitions = << >>

\* the write counter follows the store; a record the dispatcher stored
\* FAILED has had its terminal write
Counted(st, wrote_id) ==
    [id \in DOMAIN st |->
        (IF id \in DOMAIN transitions THEN transitions[id]
         ELSE IF st[id].status = "PENDING" THEN 0 ELSE 1)
        + (IF id = wrote_id THEN 1 ELSE 0)]

(***************************************************************************)
(* The dispatcher: POST /api/videos/generate-videos                        *)
(***************************************************************************)
\* generate_videos up to the return of start_video_generation_job
Called(video_request, enh, po) ==
    /\ handler.pc = "idle"
    /\ n_calls' = n_calls + 1
    /\ \E r \in {start_video_generation_job(store, pool_queue, topic,
                     video_request, get_executor(cfg), enh, po)} :
          /\ store' = r.store
          /\ pool_queue' = r.pool_queue
          /\ topic' = r.topic
          /\ transitions' = Counted(r.store, << >>)
          /\ IF r.result.ok
             THEN /\ handler' = [pc |-> "submitted",
                                 placeholder_item |-> r.result.val]
                  /\ UNCHANGED api_response
             ELSE /\ UNCHANGED handler
                  /\ api_response' = generate_videos_except(r.result.exc)
    /\ UNCHANGED << cfg, image_call, media_repo, app_state, sessions, lifespan, retrying, pool_running, n_deliveries, processing, response >>

\* one of the calls the model counts
GenerateVideos(video_request, enh, po) ==
    /\ n_calls < MaxJobs
    /\ Called(video_request, enh, po)

\* GenerateVideosReturn with a bug: the call waits for the job and returns
\* the record as the job left it
GenerateVideosReturn_waits ==
    /\ handler.pc = "submitted"
    /\ store[handler.placeholder_item.id].status # "PENDING"
    /\ api_response' = [kind |-> "return", status_code |-> 200,
                        body |-> store[handler.placeholder_item.id]]
    /\ handler' = Idle
    /\ UNCHANGED << cfg, image_call, media_repo, app_state, sessions, lifespan, retrying, store, n_calls, pool_queue, pool_running, topic,
                    n_deliveries, processing, response, transitions >>

\* generate_videos returns the placeholder it was given
GenerateVideosReturn ==
    /\ handler.pc = "submitted"
    /\ api_response' = [kind |-> "return", status_code |-> 200,
                        body |-> handler.placeholder_item]
    /\ handler' = Idle
    /\ UNCHANGED << cfg, image_call, media_repo, app_state, sessions, lifespan, retrying, store, n_calls, pool_queue, pool_running, topic,
                    n_deliveries, processing, response, transitions >>

(***************************************************************************)
(* The local path: the process pool.                                       *)
(***************************************************************************)
\* a free worker takes the oldest queued work item
WorkerStart ==
    /\ Len(pool_queue) > 0
    /\ Cardinality(pool_running) < max_workers
    /\ pool_running' = pool_running \cup {Head(pool_queue)}
    /\ pool_queue' = Tail(pool_queue)
    /\ UNCHANGED << cfg, image_call, media_repo, app_state, sessions, lifespan, retrying, store, handler, n_calls, api_response, topic,
                    n_deliveries, processing, response, transitions >>

\* the routine a worker runs comes to its end
WorkerFinish(w, outcome) ==
    /\ w \in pool_running
    /\ LET r == process_video_in_background(store, w.media_item_id,
                                            w.request_dto, outcome)
       IN /\ store' = r.store
          /\ transitions' =
                 Counted(r.store, IF r.wrote THEN w.media_item_id ELSE << >>)
    /\ pool_running' = pool_running \ {w}
    /\ UNCHANGED << cfg, image_call, media_repo, app_state, sessions, lifespan, retrying, handler, n_calls, api_response, pool_queue, topic,
                    n_deliveries, processing, response >>

(***************************************************************************)
(* The remote path: the topic and the receiver.                            *)
(***************************************************************************)
\* what a finished invocation of the receiver came to: its response, how
\* often it called the generation routine and whether that wrote the record
Outcome(ev, r, invoked, applied) ==
    [event |-> ev, kind |-> r.kind, code |-> r.code, exc |-> r.exc,
     invoked |-> invoked, applied |-> applied]

\* the receiver is invoked with a message: it runs up to its return, its
\* raise, or the call of the generation routine
Invoked(ev, r) ==
    /\ IF r.kind = "process"
       THEN /\ processing' =
                   processing (+) SetToBag({[event |-> ev,
                                             event_model |-> r.event_model]})
            /\ UNCHANGED response
       ELSE /\ response' = Outcome(ev, r, 0, FALSE)
            /\ UNCHANGED processing
    /\ UNCHANGED << cfg, image_call, media_repo, app_state, sessions, lifespan, retrying, store, handler, n_calls, api_response, pool_queue,
                    pool_running, topic, transitions >>

\* one of the deliveries the model counts
Receive(ev) ==
    /\ n_deliveries < MaxDeliveries
    /\ n_deliveries' = n_deliveries + 1
    /\ \E r \in {entrypoint(ev)} : Invoked(ev, r)

\* the queue delivers a message of the dispatcher, possibly once more:
\* delivery is at least once
Deliver(ev) ==
    /\ ev \in topic
    /\ Receive(ev)

\* the queue delivers a message another publisher put on the topic
DeliverForeign(ev) ==
    /\ ev \in ForeignEvents
    /\ Receive(ev)

\* the generation routine a receiver called comes to its end and the
\* receiver returns
ReceiverFinish(p, outcome) ==
    /\ BagIn(p, processing)
    /\ LET r == process_video_in_background(store,
                    p.event_model.media_item_id, p.event_model.request_dto,
                    outcome)
       IN /\ store' = r.store
          /\ transitions' =
                 Counted(r.store, IF r.wrote THEN p.event_model.media_item_id
                                  ELSE << >>)
          /\ response' = Outcome(p.event, entrypoint_processed, 1, r.wrote)
    /\ processing' = processing (-) SetToBag({p})
    /\ UNCHANGED << cfg, image_call, media_repo, app_state, sessions, lifespan, retrying, handler, n_calls, api_response, pool_queue,
                    pool_running, topic, n_deliveries >>

\* routine_raised with a bug: the call of the routine is inside a try
\* block that logs the exception, and the receiver returns
routine_raised_swallowed(e) == Return(200)

\* the receiver when _process_video_in_background raises: the call is
\* after the try block, the exception leaves the receiver
routine_raised(e) == Raised(e)

\* the generation routine a receiver called raises while the record is
\* PENDING, and leaves it so
ReceiverRaise(p, e) ==
    /\ BagIn(p, processing)
    /\ p.event_model.media_item_id \in DOMAIN store
    /\ store[p.event_model.media_item_id].status = "PENDING"
    /\ response' = Outcome(p.event, routine_raised(e), 1, FALSE)
    /\ processing' = processing (-) SetToBag({p})
    /\ UNCHANGED << cfg, image_call, media_repo, app_state, sessions, lifespan, retrying, store, handler, n_calls,
                    api_response, pool_queue, pool_running, topic,
                    n_deliveries, transitions >>

Next ==
    \/ \E video_request \in Requests, enh \in EnhanceOutcomes,
          po \in PublishOutcomes : GenerateVideos(video_request, enh, po)
    \/ GenerateVideosReturn
    \/ WorkerStart
    \/ \E w \in pool_running, outcome \in GenOutcomes : WorkerFinish(w, outcome)
    \/ \E ev \in topic : Deliver(ev)
    \/ \E ev \in ForeignEvents : DeliverForeign(ev)
    \/ \E p \in BagToSet(processing), outcome \in GenOutcomes :
          ReceiverFinish(p, outcome)
    \/ \E p \in BagToSet(processing) : ReceiverRaise(p, "RuntimeError")

Spec == Init /\ [][Next]_vars

(***************************************************************************)
(* Properties.                                                             *)
(***************************************************************************)
IsTerminal(rec) == rec.status \in {"COMPLETED", "FAILED"}

\* the record a message in the routine is about
RecordOf(p) == store[p.event_model.media_item_id]
HasRecord(p) == p.event_model.media_item_id \in DOMAIN store

\* the receiver has finished an invocation
Responded == response.kind # "none"

\* message.data of a message, None where there is none
PayloadOf(ev) == message_data(ev).val
HasPayload(ev) == message_data(ev).ok /\ ~falsy(PayloadOf(ev))

\* C1: a record never leaves a terminal state: every step leaves the status
\* of every record as it is or takes it from PENDING to COMPLETED or FAILED,
\* and no record is removed
C1_OnlyPendingToTerminal ==
    [][\A id \in DOMAIN store :
          /\ id \in DOMAIN store'
          /\ \/ store'[id].status = store[id].status
             \/ /\ store[id].status = "PENDING"
                /\ store'[id].status \in {"COMPLETED", "FAILED"}]_vars

\* a completion was attempted on a record in a terminal state and discarded
C1_Witness ==
    /\ Responded /\ response.invoked = 1 /\ ~response.applied
    /\ \E id \in DOMAIN store : IsTerminal(store[id])

C3_AtMostOneTerminalWrite ==
    /\ [](\A id \in DOMAIN store : transitions[id] <= 1)
    /\ [][\A id \in DOMAIN store :
             IsTerminal(store[id]) =>
                 id \in DOMAIN store' /\ store'[id] = store[id]]_vars

\* of two concurrent deliveries of one message the first has written the
\* record while the second is still in the routine
C3_Witness ==
    \E p \in BagToSet(processing) :
        /\ Responded /\ response.event = p.event /\ response.applied
        /\ HasRecord(p) /\ IsTerminal(RecordOf(p))
        /\ transitions[p.event_model.media_item_id] = 1

\* C4: whenever generate_videos returns a record, the record is PENDING,
\* has an id and no results; and the return never waits: once the job is
\* handed over, the call can return whatever state the job is in
C4_SubmitReturnsPendingAtOnce ==
    /\ api_response.kind = "return" =>
           /\ api_response.body.status = "PENDING"
           /\ Len(api_response.body.id) > 0
           /\ Len(api_response.body.gcs_uris) = 0
    /\ handler.pc = "submitted" => ENABLED GenerateVideosReturn

\* the record was returned while its job had not been started
C4_Witness ==
    /\ api_response.kind = "return"
    /\ store[api_response.body.id].status = "PENDING"
    /\ \/ \E i \in DOMAIN pool_queue :
              pool_queue[i].media_item_id = api_response.body.id
       \/ topic # {} /\ n_deliveries = 0

\* C5: a record has result locations exactly when it is COMPLETED
C5_ResultsIffCompleted ==
    \A id \in DOMAIN store :
        Len(store[id].gcs_uris) > 0 <=> store[id].status = "COMPLETED"

\* a generation that returned no output left its record FAILED
C5_Witness ==
    \E id \in DOMAIN store :
        store[id].status = "FAILED" /\ store[id].error_message = "no output"

\* C6: a record has an error detail exactly when it is FAILED
C6_ErrorIffFailed ==
    \A id \in DOMAIN store :
        store[id].error_message # "" <=> store[id].status = "FAILED"

\* a generation that raised an exception without text left its record
\* FAILED
C6_Witness ==
    \E id \in DOMAIN store :
        /\ store[id].status = "FAILED"
        /\ store[id].error_message = "generation failed"

\* the payload is text that base64.b64decode refuses
FailsBase64(ev) ==
    /\ HasPayload(ev) /\ PayloadOf(ev).t = "str"
    /\ ~b64decode(PayloadOf(ev)).ok

\* the payload is base64 of bytes that are not UTF-8
FailsUtf8(ev) ==
    /\ HasPayload(ev)
    /\ b64decode(PayloadOf(ev)).ok
    /\ ~utf8_decode(b64decode(PayloadOf(ev)).val).ok

\* C7: a message whose payload fails base64 or UTF-8 decoding is rejected
\* for good: the receiver returns an acknowledging response, does not
\* raise and does not call the generation routine
C7_UndecodableIsAcknowledged ==
    (Responded /\ (FailsBase64(response.event) \/ FailsUtf8(response.event)))
    => /\ response.kind = "return"
       /\ Acknowledges(response)
       /\ response.invoked = 0

\* the text the payload decodes to
DecodedText(ev) == utf8_decode(b64decode(PayloadOf(ev)).val).val
Decodes(ev) ==
    HasPayload(ev) /\ ~FailsBase64(ev) /\ ~FailsUtf8(ev)
    /\ b64decode(PayloadOf(ev)).ok

\* the payload decodes to a text that is not JSON
NotJson(ev) == Decodes(ev) /\ ~json_loads(DecodedText(ev)).ok

\* the payload is JSON that is not a Queued Job Envelope
NotEnvelope(ev) ==
    /\ Decodes(ev) /\ json_loads(DecodedText(ev)).ok
    /\ ~SubmitRemoteVeoJobDto_validate(json_loads(DecodedText(ev)).val).ok

\* the exception raised while the receiver handles a message, "none" if
\* there is none
HandlingException(ev) ==
    IF ~message_data(ev).ok THEN message_data(ev).exc
    ELSE IF falsy(PayloadOf(ev)) THEN "none"
    ELSE IF ~b64decode(PayloadOf(ev)).ok THEN b64decode(PayloadOf(ev)).exc
    ELSE IF FailsUtf8(ev) THEN "UnicodeDecodeError"
    ELSE IF NotJson(ev) THEN "JSONDecodeError"
    ELSE IF NotEnvelope(ev) THEN "ValidationError"
    ELSE "none"

\* the ids new_id gives to the records of the model
JobIds == { << 48 + n >> : n \in 1..MaxJobs }

\* the messages the dispatcher can publish
Envelopes ==
    { PushEvent(utf8_encode(model_dump_json(
          [media_item_id |-> id, request_dto |-> q]))) :
      id \in JobIds, q \in Requests }

\* what the receiver's steps make of each message it can be given
Handling ==
    [ev \in ForeignEvents \cup Envelopes |->
        [not_json     |-> NotJson(ev),
         not_envelope |-> NotEnvelope(ev),
         exception    |-> HandlingException(ev)]]

\* C8: a message whose payload is not JSON, or is JSON that is not a Queued
\* Job Envelope, is rejected for good: the receiver returns an
\* acknowledging response, does not raise and does not call the
\* generation routine
C8_UnparsableIsAcknowledged ==
    ( /\ Responded
      /\ \/ Handling[response.event].not_json
         \/ Handling[response.event].not_envelope )
    => /\ response.kind = "return"
       /\ Acknowledges(response)
       /\ response.invoked = 0

\* the receiver has rejected JSON that is not an envelope
C8_Witness ==
    /\ Responded /\ Handling[response.event].not_envelope
    /\ response.kind = "return" /\ response.invoked = 0

\* the message has no payload: message.data is absent or empty
NoPayload(ev) == message_data(ev).ok /\ falsy(PayloadOf(ev))

\* C9: a message without payload is rejected for good: the response
\* acknowledges it, and the generation routine is not called
C9_NoPayloadIsAcknowledged ==
    (Responded /\ NoPayload(response.event))
    => /\ Acknowledges(response)
       /\ response.invoked = 0

\* the failures the receiver anticipates: base64 and UTF-8 decoding, JSON
\* parsing, schema validation
Anticipated ==
    {"binascii.Error", "ValueError", "UnicodeDecodeError", "JSONDecodeError",
     "ValidationError"}

\* C10: an exception outside the anticipated failures is never
\* acknowledged: it leaves the receiver, which gives no response
C10_UnexpectedPropagates ==
    ( /\ Responded
      /\ Handling[response.event].exception \notin Anticipated \cup {"none"} )
    => /\ response.kind = "raise"
       /\ response.exc = Handling[response.event].exception
       /\ ~Acknowledges(response)

\* a payload that is no text made base64.b64decode raise inside the try
\* block, and the exception left the receiver
C10_Witness ==
    /\ Responded /\ response.exc = "TypeError" /\ response.kind = "raise"
    /\ Handling[response.event].exception = "TypeError"

(***************************************************************************)
(* Publishing.                                                             *)
(***************************************************************************)
\* the record id each message of the dispatcher carries, as the receiver
\* reads it
EnvelopeId ==
    [ev \in Envelopes |-> entrypoint(ev).event_model.media_item_id]

\* a message for the record is on the topic
PublishedFor(id) == \E ev \in topic : EnvelopeId[ev] = id

\* C11: a failed publish is reported to the caller of submit: whenever the
\* remote executor's submit has returned normally to the dispatcher, the
\* message of the job has been published
C11_PublishFailureIsReported ==
    /\ (cfg = "remote" /\ handler.pc = "submitted")
           => PublishedFor(handler.placeholder_item.id)
    /\ (cfg = "remote" /\ api_response.kind = "return")
           => PublishedFor(api_response.body.id)

\* C12: with the remote executor no record is left PENDING with nothing to
\* process it: a PENDING record has its message on the topic (a record
\* whose publish failed is FAILED instead)
C12_NoOrphanPending ==
    cfg = "remote" =>
        \A id \in DOMAIN store :
            store[id].status = "PENDING" => PublishedFor(id)

(***************************************************************************)
(* The envelope round trip.                                                *)
(***************************************************************************)
\* the message the queue delivers for the envelope the remote executor
\* publishes for record id and request q
EnvelopeOf ==
    [id \in JobIds, q \in Requests |->
        PushEvent(utf8_encode(model_dump_json(
            [media_item_id |-> id, request_dto |-> q])))]

\* C13: the receiver accepts every message the remote executor has
\* published, and the envelope it reads from the message of record id and
\* request q has exactly that id and that request
C13_EnvelopeRoundTrip ==
    /\ \A ev \in topic : Handling[ev].exception = "none"
    /\ \A p \in BagToSet(processing) :
           \A id \in JobIds, q \in Requests :
               p.event = EnvelopeOf[id, q] =>
                   p.event_model = [media_item_id |-> id, request_dto |-> q]

\* the receiver has read the envelope of a request whose prompt has a
\* character outside ASCII and a character that JSON escapes
C13_Witness ==
    \E p \in BagToSet(processing) :
        /\ p.event_model.request_dto.prompt = Str(<<"E", "\"">>)
        /\ p.event \in topic

(***************************************************************************)
(* Unrecognized members.                                                   *)
(***************************************************************************)
\* the payload is a JSON object that has the members of an envelope and at
\* least one more
HasExtraField(ev) ==
    /\ Decodes(ev) /\ json_loads(DecodedText(ev)).ok
    /\ json_loads(DecodedText(ev)).val.t = "dict"
    /\ {K_media_item_id, K_request_dto}
           \subseteq dict_keys(json_loads(DecodedText(ev)).val)
    /\ dict_keys(json_loads(DecodedText(ev)).val)
           # {K_media_item_id, K_request_dto}

\* HasExtraField of each message the receiver can be given
ExtraField == [ev \in ForeignEvents \cup Envelopes |-> HasExtraField(ev)]

\* C14: a message whose JSON object has a member the envelope schema does
\* not name is rejected for good: the receiver returns an acknowledging
\* response and does not call the generation routine
C14_ExtraFieldIsRejected ==
    (Responded /\ ExtraField[response.event])
    => /\ response.kind = "return"
       /\ Acknowledges(response)
       /\ response.invoked = 0

\* the receiver has rejected an envelope with one member more
C14_Witness ==
    /\ Responded /\ ExtraField[response.event]
    /\ response.kind = "return" /\ response.invoked = 0

(***************************************************************************)
(* Selection of the executor.                                              *)
(***************************************************************************)
\* C15: with a VEO_EXECUTOR_TYPE that is neither "local" nor "remote"
\* selection raises: it yields no object, and no call of generate_videos
\* gets past it to create a record
C15_UnknownTypeRaises ==
    (cfg \notin {"local", "remote"} /\ n_calls > 0)
    => DOMAIN store = {}

\* the job of the record is with the process pool
InPool(id) ==
    \/ \E i \in DOMAIN pool_queue : pool_queue[i].media_item_id = id
    \/ \E w \in pool_running : w.media_item_id = id

\* C16: "local" selects the process pool and "remote" the publishing
\* executor, and both take submit(record id, request): with "local" every
\* job is handed to the pool and none is published, with "remote" jobs are
\* published and none is handed to the pool, and submit is never missing
C16_SelectionMapsBackends ==
    /\ cfg = "local" =>
           /\ get_executor(cfg) = "process_pool"
           /\ topic = {}
           /\ \A id \in DOMAIN store :
                  store[id].status = "PENDING" => InPool(id)
    /\ cfg = "remote" =>
           /\ get_executor(cfg) = "RemoteVeoExecutor"
           /\ pool_queue = << >> /\ pool_running = {}
           /\ \A ev \in topic : EnvelopeId[ev] \in DOMAIN store
    /\ cfg \in {"local", "remote"} =>
           \A id \in DOMAIN store :
               store[id].error_message # "AttributeError"

\* with "remote" a job was published and the pool was given nothing
C16_Witness ==
    /\ cfg = "remote" /\ pool_queue = << >> /\ pool_running = {}
    /\ \E id \in DOMAIN store : PublishedFor(id)

(***************************************************************************)
(* The batch dispatcher: POST /api/videos/generate-videos-batch            *)
(***************************************************************************)
\* the longest batch
MaxBatch == 3

\* what the collaborators of one item come to: enhancement raises, or it
\* succeeds and publishing comes to one of its outcomes
ItemOutcomes ==
    { [enh |-> e, po |-> [client |-> "ok", publish |-> "ok"]] :
          e \in EnhanceOutcomes \ {"ok"} }
    \cup { [enh |-> "ok", po |-> po] : po \in PublishOutcomes }

\* the locals of generate_videos_batch before the loop
BatchStart(st, q, tp) ==
    [store |-> st, pool_queue |-> q, topic |-> tp,
     successful_results |-> << >>, failed_tasks |-> << >>]

\* batch_item with a bug: after a failure no further item is attempted
batch_item_stops(acc, executor, item) ==
    IF Len(acc.failed_tasks) > 0 THEN acc
    ELSE LET r == start_video_generation_job(acc.store, acc.pool_queue,
                      acc.topic, item.video_request, executor,
                      item.outcome.enh, item.outcome.po)
         IN IF r.result.ok
            THEN [store |-> r.store, pool_queue |-> r.pool_queue,
                  topic |-> r.topic,
                  successful_results |->
                      Append(acc.successful_results, r.result.val),
                  failed_tasks |-> acc.failed_tasks]
            ELSE [store |-> r.store, pool_queue |-> r.pool_queue,
                  topic |-> r.topic,
                  successful_results |-> acc.successful_results,
                  failed_tasks |->
                      Append(acc.failed_tasks,
                             [video_request |-> item.video_request,
                              error |-> r.result.exc])]

\* one iteration of the loop: the job of the item is started, its
\* placeholder appended to successful_results, or the exception it raised
\* appended to failed_tasks with the request
batch_item(acc, executor, item) ==
    LET r == start_video_generation_job(acc.store, acc.pool_queue,
                 acc.topic, item.video_request, executor,
                 item.outcome.enh, item.outcome.po)
    IN IF r.result.ok
       THEN [store |-> r.store, pool_queue |-> r.pool_queue,
             topic |-> r.topic,
             successful_results |->
                 Append(acc.successful_results, r.result.val),
             failed_tasks |-> acc.failed_tasks]
       ELSE [store |-> r.store, pool_queue |-> r.pool_queue,
             topic |-> r.topic,
             successful_results |-> acc.successful_results,
             failed_tasks |->
                 Append(acc.failed_tasks,
                        [video_request |-> item.video_request,
                         error |-> r.result.exc])]

RECURSIVE batch_loop(_, _, _, _)
\* the loop over video_requests, from item i on
batch_loop(acc, executor, items, i) ==
    IF i > Len(items) THEN acc
    ELSE batch_loop(batch_item(acc, executor, items[i]), executor, items,
                    i + 1)

\* the message of the exception the batch raises: how many of how many
\* tasks failed, and for each failure the type and text of the exception
batch_error_message(failed_tasks, video_requests) ==
    [failed |-> Len(failed_tasks), total |-> Len(video_requests),
     items  |-> [i \in DOMAIN failed_tasks |->
                    [error |-> failed_tasks[i].error]]]

\* generate_videos_batch after the loop: the list of placeholders, or an
\* Exception that the last except clause turns into a 500
batch_response(successful_results, failed_tasks, video_requests) ==
    IF Len(failed_tasks) > 0
    THEN [kind |-> "http_error", status_code |-> 500, body |-> << >>,
          detail |-> batch_error_message(failed_tasks, video_requests)]
    ELSE [kind |-> "return", status_code |-> 200,
          body |-> successful_results]

\* generate_videos_batch up to the end of its loop
GenerateVideosBatch(items) ==
    /\ handler.pc = "idle"
    /\ n_calls = 0
    /\ n_calls' = 1
    /\ \E acc \in {batch_loop(BatchStart(store, pool_queue, topic),
                              get_executor(cfg), items, 1)} :
          /\ store' = acc.store
          /\ pool_queue' = acc.pool_queue
          /\ topic' = acc.topic
          /\ transitions' = Counted(acc.store, << >>)
          /\ handler' = [pc |-> "batch_done", placeholder_item |-> << >>,
                         video_requests |->
                             [i \in DOMAIN items |-> items[i].video_request],
                         successful_results |-> acc.successful_results,
                         failed_tasks |-> acc.failed_tasks]
    /\ UNCHANGED << cfg, image_call, media_repo, app_state, sessions, lifespan, retrying, api_response, pool_running, n_deliveries,
                    processing, response >>

\* GenerateVideosBatchReturn with a bug: a batch that raises takes back
\* the records and the work items of the items that succeeded
GenerateVideosBatchReturn_rolls_back ==
    /\ handler.pc = "batch_done"
    /\ api_response' = batch_response(handler.successful_results,
                                      handler.failed_tasks,
                                      handler.video_requests)
    /\ handler' = Idle
    /\ IF Len(handler.failed_tasks) > 0
       THEN /\ store' = << >>
            /\ pool_queue' = << >>
            /\ transitions' = << >>
       ELSE UNCHANGED << store, pool_queue, transitions >>
    /\ UNCHANGED << cfg, image_call, media_repo, app_state, sessions, lifespan, retrying, n_calls, pool_running, topic,
                    n_deliveries, processing, response >>

\* generate_videos_batch returns the placeholders or raises
GenerateVideosBatchReturn ==
    /\ handler.pc = "batch_done"
    /\ api_response' = batch_response(handler.successful_results,
                                      handler.failed_tasks,
                                      handler.video_requests)
    /\ handler' = Idle
    /\ UNCHANGED << cfg, image_call, media_repo, app_state, sessions, lifespan, retrying, store, n_calls, pool_queue, pool_running, topic,
                    n_deliveries, processing, response, transitions >>

\* the batches of the model
Batches ==
    UNION { [1..n -> [video_request : Requests, outcome : ItemOutcomes]] :
            n \in 0..MaxBatch }

BatchNext ==
    \/ \E items \in Batches : GenerateVideosBatch(items)
    \/ GenerateVideosBatchReturn

BatchSpec == Init /\ [][BatchNext]_vars

\* C17: every item of a batch is attempted, whatever became of the items
\* before it: at the end of the loop each request has its placeholder or
\* its failure entry, and every placeholder is a record of the store whose
\* job was handed to the executor
C17_BatchItemsIndependent ==
    handler.pc = "batch_done" =>
        /\ Len(handler.successful_results) + Len(handler.failed_tasks)
               = Len(handler.video_requests)
        /\ \A i \in DOMAIN handler.successful_results :
               /\ handler.successful_results[i].id \in DOMAIN store
               /\ store[handler.successful_results[i].id].status = "PENDING"
               /\ cfg = "local" => InPool(handler.successful_results[i].id)
        /\ \A i, j \in DOMAIN handler.successful_results :
               i # j => handler.successful_results[i].id
                            # handler.successful_results[j].id

\* the first of two different requests failed and the second has its
\* record and its job in the pool
C17_Witness ==
    /\ handler.pc = "batch_done" /\ cfg = "local"
    /\ Len(handler.video_requests) = 2
    /\ handler.video_requests[1] # handler.video_requests[2]
    /\ Len(handler.failed_tasks) = 1
    /\ handler.failed_tasks[1].video_request = handler.video_requests[1]
    /\ Len(handler.successful_results) = 1
    /\ handler.successful_results[1].prompt
           = enhance_prompt(handler.video_requests[2].prompt)
    /\ InPool(handler.successful_results[1].id)

\* the response of a batch of which some items failed
PartialFailure ==
    /\ "detail" \in DOMAIN api_response
    /\ api_response.detail.failed > 0

\* C18: the response of a batch of which some items failed has the record
\* of every item that succeeded, and a failure entry for every item that
\* failed, with the request of the item in the entry
C18_PartialFailureReported ==
    PartialFailure =>
        /\ Len(api_response.body)
               = api_response.detail.total - api_response.detail.failed
        /\ \A i \in DOMAIN api_response.body :
               api_response.body[i].id \in DOMAIN store
        /\ Len(api_response.detail.items) = api_response.detail.failed
        /\ \A i \in DOMAIN api_response.detail.items :
               "video_request" \in DOMAIN api_response.detail.items[i]

(***************************************************************************)
(* Prompt enhancement: GeminiService.generate_structured_prompt            *)
(***************************************************************************)
\* @retry(stop=stop_after_attempt(3))
stop_after_attempt == 3

\* what the attempts of one enhancement come to, one after the other
Attempts == [1..stop_after_attempt -> EnhanceOutcomes]

RECURSIVE retry_call(_, _)
\* @retry(retry=retry_if_exception_type(Exception), reraise=True): an
\* attempt that raises is followed by the next one, and the exception of
\* the last attempt is raised again
retry_call(attempts, i) ==
    IF attempts[i] = "ok" THEN "ok"
    ELSE IF i >= stop_after_attempt THEN attempts[i]
    ELSE retry_call(attempts, i + 1)

\* generate_structured_prompt with a bug: a failure is logged and the
\* call returns
generate_structured_prompt_swallows(attempts) == "ok"

\* generate_structured_prompt: the except clause logs and raises again
generate_structured_prompt(attempts) == retry_call(attempts, 1)

\* every attempt of the enhancement raises
AllFail(attempts) == \A i \in DOMAIN attempts : attempts[i] # "ok"

\* a submission in the present state whose enhancement comes to enh
SubmissionWith(video_request, enh, po) ==
    start_video_generation_job(store, pool_queue, topic, video_request,
                               get_executor(cfg), enh, po)

\* the submission raised exc, created no record and handed no job over,
\* and the caller gets an error response
RaisedBeforeRecord(r, exc) ==
    /\ ~r.result.ok
    /\ r.result.exc = exc
    /\ r.store = store
    /\ r.pool_queue = pool_queue
    /\ r.topic = topic
    /\ generate_videos_except(r.result.exc).kind = "http_error"

\* C19: in every state, a submission whose prompt enhancement fails (each
\* of its attempts raises) raises the exception of the last attempt to the
\* caller, and leaves the store, the pool and the topic as they were
C19_EnhancementFailurePropagates ==
    \A attempts \in Attempts : AllFail(attempts) =>
        /\ generate_structured_prompt(attempts) = attempts[stop_after_attempt]
        /\ \A video_request \in Requests, po \in PublishOutcomes :
              RaisedBeforeRecord(
                  SubmissionWith(video_request,
                                 generate_structured_prompt(attempts), po),
                  attempts[stop_after_attempt])

\* a submission failed at the enhancement: the caller has the error, and
\* there is no record and no job
C19_Witness ==
    /\ cfg = "remote" /\ n_calls = 1 /\ handler.pc = "idle"
    /\ api_response.kind = "http_error" /\ api_response.status_code = 400
    /\ DOMAIN store = {} /\ topic = {} /\ pool_queue = << >>

(***************************************************************************)
(* Polling: GET /api/videos/{media_id}                                     *)
(***************************************************************************)
\* VeoService.get_media_item_with_presigned_urls: the record as the store
\* has it, or None
get_media_item_with_presigned_urls(st, media_id) ==
    IF media_id \in DOMAIN st
    THEN [none |-> FALSE, item |-> st[media_id]]
    ELSE [none |-> TRUE, item |-> << >>]

\* get_media_item_by_id with a bug: the test of the response is inverted
get_media_item_by_id_inverted(st, media_id) ==
    IF ~get_media_item_with_presigned_urls(st, media_id).none
    THEN [kind |-> "http_error", status_code |-> 404, body |-> << >>]
    ELSE [kind |-> "return", status_code |-> 200,
          body |-> get_media_item_with_presigned_urls(st, media_id).item]

\* get_media_item_by_id: the item, or a 404 when there is none
get_media_item_by_id(st, media_id) ==
    IF get_media_item_with_presigned_urls(st, media_id).none
    THEN [kind |-> "http_error", status_code |-> 404, body |-> << >>]
    ELSE [kind |-> "return", status_code |-> 200,
          body |-> get_media_item_with_presigned_urls(st, media_id).item]

\* the generation call returned result URIs
Succeeds(outcome) == outcome.ok /\ Len(outcome.uris) > 0

\* a poll of the record returns it COMPLETED with exactly the given URIs
PollsCompleted(st, media_id, uris) ==
    /\ get_media_item_by_id(st, media_id).kind = "return"
    /\ get_media_item_by_id(st, media_id).body.id = media_id
    /\ get_media_item_by_id(st, media_id).body.status = "COMPLETED"
    /\ get_media_item_by_id(st, media_id).body.gcs_uris = uris

\* C20: on the local backend, once the routine of a worker has come to its
\* end with a generation call that returned result URIs, a poll of the
\* record returns COMPLETED with exactly those URIs, and every later poll
\* returns the same
C20_LocalSuccessIsPolled ==
    [][cfg = "local" =>
          /\ \A w \in pool_running, outcome \in GenOutcomes :
                 (Succeeds(outcome) /\ WorkerFinish(w, outcome)) =>
                     PollsCompleted(store', w.media_item_id, outcome.uris)
          /\ \A id \in DOMAIN store :
                 PollsCompleted(store, id, store[id].gcs_uris) =>
                     get_media_item_by_id(store', id)
                         = get_media_item_by_id(store, id)]_vars

\* the job of the local backend is done and a poll of its record returns
\* COMPLETED with the two URIs of the generation call
C20_Witness ==
    /\ cfg = "local" /\ pool_running = {} /\ pool_queue = << >>
    /\ \E id \in DOMAIN store : PollsCompleted(store, id, <<1, 2>>)

(***************************************************************************)
(* Progress: workers are scheduled and messages are delivered.             *)
(***************************************************************************)
\* what the receiver makes of each message of the dispatcher
EnvelopeEntry == [ev \in Envelopes |-> entrypoint(ev)]

\* the record of the job a message carries is PENDING and no receiver is
\* at work on the message
Undelivered(ev) ==
    /\ EnvelopeId[ev] \in DOMAIN store
    /\ store[EnvelopeId[ev]].status = "PENDING"
    /\ \A p \in BagToSet(processing) : p.event # ev

\* the queue delivers a message until it is acknowledged: a delivery of a
\* message whose job is not done is not held back by MaxDeliveries
DeliverPending(ev) ==
    /\ ev \in topic
    /\ Undelivered(ev)
    /\ Invoked(ev, EnvelopeEntry[ev])
    /\ UNCHANGED n_deliveries

\* the steps of the dispatcher, the pool, the queue and the receiver; the
\* messages of other publishers have no part in the progress of a job
LiveNext ==
    \/ \E video_request \in Requests, enh \in EnhanceOutcomes,
          po \in PublishOutcomes : GenerateVideos(video_request, enh, po)
    \/ GenerateVideosReturn
    \/ WorkerStart
    \/ \E w \in pool_running, outcome \in GenOutcomes : WorkerFinish(w, outcome)
    \/ \E ev \in topic : Deliver(ev)
    \/ \E ev \in topic : DeliverPending(ev)
    \/ \E p \in BagToSet(processing), outcome \in GenOutcomes :
          ReceiverFinish(p, outcome)

\* a queued work item gets a worker, a routine that runs comes to its end,
\* and a message of the topic is delivered
LiveSpec ==
    /\ Init
    /\ [][LiveNext]_vars
    /\ WF_vars(WorkerStart)
    /\ WF_vars(\E w \in pool_running, outcome \in GenOutcomes :
                   WorkerFinish(w, outcome))
    /\ WF_vars(\E ev \in topic : DeliverPending(ev))
    /\ WF_vars(\E p \in BagToSet(processing), outcome \in GenOutcomes :
                   ReceiverFinish(p, outcome))

\* the record exists and its job is with a backend: in the pool, or on
\* the topic
Accepted(id) ==
    /\ id \in DOMAIN store
    /\ cfg = "remote" => PublishedFor(id)

C22_ValidationErrorIs4xx ==
    (/\ PartialFailure
     /\ \A i \in DOMAIN api_response.detail.items :
            api_response.detail.items[i].error = "ValueError")
        => api_response.status_code = 400

(***************************************************************************)
(* The process pool under load, and the shutdown of the application.       *)
(***************************************************************************)
\* the number of submissions to the pool
MaxPoolJobs == 6

\* the generation calls of the pool's jobs: result URIs, or an exception
PoolOutcomes == { o \in GenOutcomes : Len(o.uris) > 0 \/ o.error # "" }

\* a request is served while the application serves
Submit ==
    /\ lifespan = "serving"
    /\ n_calls < MaxPoolJobs
    /\ \E po \in PublishOutcomes :
          Called([model |-> Str(<<"X">>), prompt |-> Str(<<"a">>)], "ok", po)

\* process_pool.shutdown(wait=True) with a bug: the call does not wait
shutdown_nowait(q, running) == TRUE

\* process_pool.shutdown(wait=True) returns: no work item is queued and
\* none is running
shutdown(q, running) == Len(q) = 0 /\ running = {}

\* lifespan is resumed after its yield: no request is being served
ShutdownBegin ==
    /\ lifespan = "serving"
    /\ handler.pc = "idle"
    /\ lifespan' = "shutdown"
    /\ UNCHANGED << cfg, image_call, media_repo, app_state, sessions, retrying, store, handler, n_calls, api_response, pool_queue,
                    pool_running, topic, n_deliveries, processing, response,
                    transitions >>

\* shutdown has returned and lifespan is at its end: the process exits
ShutdownEnd ==
    /\ lifespan = "shutdown"
    /\ shutdown(pool_queue, pool_running)
    /\ lifespan' = "exited"
    /\ UNCHANGED << cfg, image_call, media_repo, app_state, sessions, retrying, store, handler, n_calls, api_response, pool_queue,
                    pool_running, topic, n_deliveries, processing, response,
                    transitions >>

\* the pool has its workers until the process exits
PoolNext ==
    \/ Submit
    \/ GenerateVideosReturn
    \/ lifespan # "exited" /\ WorkerStart
    \/ /\ lifespan # "exited"
       /\ \E w \in pool_running, outcome \in PoolOutcomes :
              WorkerFinish(w, outcome)
    \/ ShutdownBegin
    \/ ShutdownEnd

\* the application has started with the local backend
PoolInit == Init /\ cfg = "local"

PoolSpec == PoolInit /\ [][PoolNext]_vars

\* C23: every submission to the pool is taken: at most max_workers
\* routines run at a time, a submission that finds every worker busy is
\* queued, and the queue stays below the number of submissions that found
\* no worker
C23_PoolQueueIsCapped ==
    /\ Cardinality(pool_running) <= max_workers
    /\ \A id \in DOMAIN store :
           store[id].status = "PENDING" /\ lifespan # "exited" => InPool(id)
    /\ Cardinality(pool_running) = max_workers =>
           Len(pool_queue) < MaxPoolJobs - max_workers

\* C24: when the process exits no work item is queued or running, and
\* every job submitted to the pool has come to a terminal state
C24_ShutdownDrainsPool ==
    lifespan = "exited" =>
        /\ Len(pool_queue) = 0 /\ pool_running = {}
        /\ \A id \in DOMAIN store : IsTerminal(store[id])

\* the process has exited after more jobs than the pool has workers
C24_Witness ==
    /\ lifespan = "exited"
    /\ Cardinality(DOMAIN store) > max_workers
    /\ \A id \in DOMAIN store : IsTerminal(store[id])

(***************************************************************************)
(* The retried methods of GeminiService.                                   *)
(***************************************************************************)
\* the calls of the model: generate_structured_prompt with a response mime
\* type and a target type, and generate_text
RetryCalls ==
    { [fn |-> "generate_structured_prompt", mime |-> m, target |-> t] :
          m \in {"application/json", "text/plain", "other"},
          t \in {"video", "other"} }
    \cup { [fn |-> "generate_text", mime |-> "text/plain",
            target |-> "video"] }

\* what client.models.generate_content comes to: a response with a text,
\* or with none (the empty text here, which is falsy as None is), or an
\* exception
ContentOutcomes ==
    { Ok(Str(<<"t">>)), Ok(Str(<<" ", "t">>)), Ok(<< >>),
      Raise("Exception"), Raise("ValueError") }

RECURSIVE lstrip(_)
\* str.lstrip of a text
lstrip(s) ==
    IF Len(s) > 0 /\ Head(s) \in {9, 10, 13, 32} THEN lstrip(Tail(s)) ELSE s

RECURSIVE rstrip(_)
\* str.rstrip of a text
rstrip(s) ==
    IF Len(s) > 0 /\ s[Len(s)] \in {9, 10, 13, 32}
    THEN rstrip(SubSeq(s, 1, Len(s) - 1)) ELSE s

\* one execution of the body of the method: generate_structured_prompt
\* raises when no schema is defined for the target, returns "" for a mime
\* type it does not know, and else `response.text or ""`; generate_text
\* returns the stripped text; an exception of the client is logged and
\* raised again
method_body(call, content) ==
    IF call.fn = "generate_structured_prompt" THEN
        IF call.target # "video" THEN Raise("ValueError")
        ELSE IF call.mime \notin {"application/json", "text/plain"}
        THEN Ok(<< >>)
        ELSE IF ~content.ok THEN content
        ELSE IF Len(content.val) = 0 THEN Ok(<< >>)
        ELSE content
    ELSE
        IF ~content.ok THEN content
        ELSE IF Len(content.val) = 0 THEN Ok(<< >>)
        ELSE Ok(rstrip(lstrip(content.val)))

\* after_attempt with a bug: the attempts are counted from 0
after_attempt_one_more(attempts) ==
    IF attempts[Len(attempts)].ok THEN "returned"
    ELSE IF Len(attempts) - 1 >= stop_after_attempt THEN "raised"
    ELSE "retry"

\* @retry(stop=stop_after_attempt(3), retry=retry_if_exception_type(
\* Exception), reraise=True) after an attempt: the value is returned, or
\* the attempt is the last and its exception is raised, or another attempt
\* follows
after_attempt(attempts) ==
    IF attempts[Len(attempts)].ok THEN "returned"
    ELSE IF Len(attempts) >= stop_after_attempt THEN "raised"
    ELSE "retry"

\* a retried method is called
RetryBegin(call) ==
    /\ retrying.done = "idle"
    /\ retrying' = [call |-> call, attempts |-> << >>, done |-> "retry"]
    /\ UNCHANGED << cfg, image_call, media_repo, app_state, sessions, lifespan, store, handler, n_calls, api_response,
                    pool_queue, pool_running, topic, n_deliveries,
                    processing, response, transitions >>

\* the body of the method is executed once more
RetryAttempt(content) ==
    /\ retrying.done = "retry"
    /\ \E attempts \in {Append(retrying.attempts,
                               method_body(retrying.call, content))} :
          retrying' = [retrying EXCEPT !.attempts = attempts,
                                       !.done = after_attempt(attempts)]
    /\ UNCHANGED << cfg, image_call, media_repo, app_state, sessions, lifespan, store, handler, n_calls, api_response,
                    pool_queue, pool_running, topic, n_deliveries,
                    processing, response, transitions >>

RetryNext ==
    \/ \E call \in RetryCalls : RetryBegin(call)
    \/ \E content \in ContentOutcomes : RetryAttempt(content)

RetrySpec == Init /\ [][RetryNext]_vars

\* what the call gave its caller
RetryResult == retrying.attempts[Len(retrying.attempts)]

\* C25: a retried method is executed at most stop_after_attempt times for
\* one call; every execution but the last has raised; a call that has
\* returned gives the value of its last execution, and a call that has
\* raised has been executed stop_after_attempt times and raises the
\* exception of the last execution
C25_RetryIsBounded ==
    /\ Len(retrying.attempts) <= stop_after_attempt
    /\ \A i \in 1..(Len(retrying.attempts) - 1) : ~retrying.attempts[i].ok
    /\ retrying.done = "retry" => Len(retrying.attempts) < stop_after_attempt
    /\ retrying.done = "returned" => RetryResult.ok
    /\ retrying.done = "raised" =>
           /\ Len(retrying.attempts) = stop_after_attempt
           /\ ~RetryResult.ok

\* three executions raised, the last one another exception than the
\* first, and the call raised the last one
C25_Witness ==
    /\ retrying.done = "raised"
    /\ retrying.call.fn = "generate_text"
    /\ retrying.attempts[1].exc = "Exception"
    /\ RetryResult.exc = "ValueError"

\* the message has a payload and no step of the receiver raises on it
Passes(ev) == HasPayload(ev) /\ Handling[ev].exception = "none"

\* C26: the receiver calls the generation routine for the messages that
\* pass every validation step and for no other, once for a delivery, and
\* with the record id of the envelope: the invocation that ends has called
\* it once and no record but the one of that id has changed; an invocation
\* that ends without the routine has called it zero times
C26_RoutineOncePerValidDelivery ==
    [][/\ \A p \in BagToSet(processing') : Passes(p.event)
       /\ \A p \in BagToSet(processing) :
              CopiesIn(p, processing') < CopiesIn(p, processing) =>
                  /\ CopiesIn(p, processing') = CopiesIn(p, processing) - 1
                  /\ response'.event = p.event
                  /\ response'.invoked = 1
                  /\ \A id \in DOMAIN store' :
                         (id \notin DOMAIN store \/ store'[id] # store[id])
                             => id = p.event_model.media_item_id
       /\ (n_deliveries' # n_deliveries /\ processing' = processing) =>
              /\ ~Passes(response'.event)
              /\ response'.invoked = 0]_vars

\* after an earlier delivery, the receiver has processed a message that
\* passes every step, and the routine has written its record
C26_Witness ==
    /\ n_deliveries >= 2
    /\ Responded /\ response.invoked = 1 /\ response.applied
    /\ Passes(response.event)

\* C27: a job that is with a backend has its record: every work item of
\* the pool, queued or running, every message of the dispatcher on the
\* topic and every such message a receiver is at work on carries the id
\* of a record of the store
C27_RecordBeforeHandOver ==
    /\ \A i \in DOMAIN pool_queue :
           pool_queue[i].media_item_id \in DOMAIN store
    /\ \A w \in pool_running : w.media_item_id \in DOMAIN store
    /\ \A ev \in topic : EnvelopeId[ev] \in DOMAIN store
    /\ \A p \in BagToSet(processing) :
           p.event \in topic => p.event_model.media_item_id \in DOMAIN store

\* a receiver is at work on a message of the dispatcher whose record is
\* PENDING
C27_Witness ==
    \E p \in BagToSet(processing) :
        /\ p.event \in topic
        /\ p.event_model.media_item_id \in DOMAIN store
        /\ store[p.event_model.media_item_id].status = "PENDING"

\* the step is a submission of request q that created the record id
SubmittedAs(id, q) ==
    /\ id \notin DOMAIN store
    /\ id \in DOMAIN store'
    /\ store'[id].model = q.model
    /\ store'[id].prompt = enhance_prompt(q.prompt)

\* C28: on the remote backend a step adds at most one message to the
\* topic, the message of a submission is the envelope of the record id and
\* the request given to submit, no work item is ever given to the pool of
\* the dispatching process, and a record comes to its terminal state in an
\* invocation of the receiver only
C28_RemoteSubmitPublishesOnly ==
    [][cfg = "remote" =>
          /\ topic' # topic =>
                 \E id \in JobIds, q \in Requests :
                     /\ SubmittedAs(id, q)
                     /\ EnvelopeOf[id, q] \notin topic
                     /\ topic' = topic \cup {EnvelopeOf[id, q]}
          /\ Len(pool_queue') = 0 /\ pool_running' = {}
          /\ \A id \in DOMAIN store :
                 store'[id] # store[id] => processing' # processing]_vars

\* the remote backend has published the envelope of a record that is
\* PENDING, and nothing is in the pool
C28_Witness ==
    /\ cfg = "remote"
    /\ \E id \in JobIds, q \in Requests :
           /\ EnvelopeOf[id, q] \in topic
           /\ id \in DOMAIN store /\ store[id].status = "PENDING"
    /\ Len(pool_queue) = 0 /\ pool_running = {}

\* the RemoteVeoExecutor objects constructed since startup: lifespan
\* constructs none, and every call of generate_videos or
\* generate_videos_batch constructs a VeoExecutorService, whose __init__
\* reads VEO_EXECUTOR_TYPE and constructs one
adapters_constructed == n_calls

\* C29: the backend is selected at startup and never again: no request
\* constructs a queue-publisher adapter
C29_BackendSelectedOnce == adapters_constructed = 0

(***************************************************************************)
(* A batch and the jobs it started.                                        *)
(***************************************************************************)
\* the batches whose jobs are followed: an item fails at the enhancement
\* or is submitted
RunBatches ==
    UNION { [1..n -> { [video_request |->
                            [model |-> Str(<<"X">>), prompt |-> Str(<<"a">>)],
                        outcome |-> o] :
                       o \in { [enh |-> "ValueError",
                                po |-> [client |-> "ok", publish |-> "ok"]],
                               [enh |-> "ok",
                                po |-> [client |-> "ok", publish |-> "ok"]] } }] :
            n \in 1..MaxBatch }

BatchRunNext ==
    \/ \E items \in RunBatches : GenerateVideosBatch(items)
    \/ GenerateVideosBatchReturn
    \/ WorkerStart
    \/ \E w \in pool_running, outcome \in PoolOutcomes : WorkerFinish(w, outcome)
    \/ \E ev \in topic : Deliver(ev)
    \/ \E p \in BagToSet(processing), outcome \in PoolOutcomes :
          ReceiverFinish(p, outcome)

BatchRunSpec == Init /\ [][BatchRunNext]_vars

\* the batch raises
BatchReportsFailure ==
    /\ handler.pc = "batch_done"
    /\ handler'.pc = "idle"
    /\ Len(handler.failed_tasks) > 0

\* C30: no record is ever taken back: a record changes only when a worker
\* or a receiver ends its routine, from PENDING to a terminal state; the
\* step in which a batch reports failure leaves the store, the pool and
\* the topic as they are, with the record of every item that succeeded
\* and, on the local backend, the work item of every such record that is
\* PENDING
C30_NoRollback ==
    [][/\ \A id \in DOMAIN store :
              /\ id \in DOMAIN store'
              /\ store'[id] # store[id] =>
                     /\ store[id].status = "PENDING"
                     /\ IsTerminal(store'[id])
                     /\ pool_running' # pool_running
                            \/ processing' # processing
       /\ BatchReportsFailure =>
              /\ store' = store /\ topic' = topic
              /\ pool_queue' = pool_queue /\ pool_running' = pool_running
              /\ \A i \in DOMAIN handler.successful_results :
                     /\ handler.successful_results[i].id \in DOMAIN store'
                     /\ (cfg = "local" /\
                         store'[handler.successful_results[i].id].status
                             = "PENDING")
                        => InPool(handler.successful_results[i].id)]_vars

\* a batch has reported failure, and the job of an item that succeeded
\* has come to COMPLETED
C30_Witness ==
    /\ handler.pc = "idle"
    /\ PartialFailure
    /\ api_response.detail.failed < api_response.detail.total
    /\ \E id \in DOMAIN store : store[id].status = "COMPLETED"
    /\ \A id \in DOMAIN store : IsTerminal(store[id])

\* C31: the receiver acknowledges a message that passes every step only
\* when the invocation ends, after the routine has returned; an invocation
\* whose routine raises ends with that exception, acknowledges nothing,
\* and leaves the message on the topic and the record PENDING, so the
\* message is delivered and the job executed again
C31_AckAfterRoutine ==
    [][/\ (n_deliveries' # n_deliveries /\ Passes(response'.event)) =>
              response' = response
       /\ \A p \in BagToSet(processing) :
              CopiesIn(p, processing') < CopiesIn(p, processing) =>
                  /\ response'.event = p.event
                  /\ response'.invoked = 1
                  /\ \/ /\ response'.kind = "return"
                        /\ Acknowledges(response')
                        /\ HasRecord(p) => IsTerminal(store'[
                               p.event_model.media_item_id])
                     \/ /\ response'.kind = "raise"
                        /\ response'.exc = "RuntimeError"
                        /\ ~Acknowledges(response')
                        /\ store' = store /\ topic' = topic
                        /\ p.event \in topic'
                        /\ RecordOf(p).status = "PENDING"]_vars

\* the routine of one delivery has raised, the record is PENDING, and
\* the message has been delivered again and its routine is at work
C31_Witness ==
    /\ response.kind = "raise" /\ response.invoked = 1
    /\ \E p \in BagToSet(processing) :
           /\ p.event = response.event
           /\ HasRecord(p) /\ RecordOf(p).status = "PENDING"

(***************************************************************************)
(* Polling: GET /api/videos/{media_id} while jobs are submitted and run.   *)
(***************************************************************************)
\* the ids a client polls: the ids of the jobs and one no job has
PollIds == JobIds \cup { << 57 >> }

\* Poll with a bug: polling a record removes it from the store
Poll_removes(media_id) ==
    /\ api_response' = get_media_item_by_id(store, media_id)
    /\ store' = [k \in DOMAIN store \ {media_id} |-> store[k]]
    /\ UNCHANGED << cfg, image_call, media_repo, app_state, sessions, lifespan, retrying, handler, n_calls, pool_queue,
                    pool_running, topic, n_deliveries, processing, response,
                    transitions >>

\* a client polls a job: the handler reads the store and responds
Poll(media_id) ==
    /\ api_response' = get_media_item_by_id(store, media_id)
    /\ UNCHANGED << cfg, image_call, media_repo, app_state, sessions, lifespan, retrying, store, handler, n_calls,
                    pool_queue, pool_running, topic, n_deliveries, processing,
                    response, transitions >>

PollNext ==
    \/ \E video_request \in Requests, enh \in EnhanceOutcomes,
          po \in PublishOutcomes : GenerateVideos(video_request, enh, po)
    \/ GenerateVideosReturn
    \/ WorkerStart
    \/ \E w \in pool_running, outcome \in GenOutcomes : WorkerFinish(w, outcome)
    \/ \E ev \in topic : Deliver(ev)
    \/ \E p \in BagToSet(processing), outcome \in GenOutcomes :
          ReceiverFinish(p, outcome)
    \/ \E media_id \in PollIds : Poll(media_id)

PollSpec == Init /\ [][PollNext]_vars

\* C32: a poll of an id responds with the record the store holds under
\* that id at that moment, responds 404 exactly when the store holds no
\* record under the id, and leaves the store as it was
C32_PollReadsStore ==
    [][\A media_id \in PollIds :
          Poll(media_id) =>
              /\ store' = store
              /\ (media_id \in DOMAIN store) =>
                     /\ api_response'.kind = "return"
                     /\ api_response'.body = store[media_id]
              /\ (media_id \notin DOMAIN store) <=>
                     /\ api_response'.kind = "http_error"
                     /\ api_response'.status_code = 404]_vars

\* a poll has returned the record of a job that has ended, as the store
\* holds it
C32_Witness ==
    /\ api_response.kind = "return"
    /\ IsTerminal(api_response.body)
    /\ api_response.body.id \in DOMAIN store
    /\ store[api_response.body.id] = api_response.body

(***************************************************************************)
(* Image generation with retries: BaseImageService.generate_images.        *)
(***************************************************************************)
\* the requests a caller submits: a prompt, and whether the request is an
\* image-to-image request of the Gemini image model
ImageRequests ==
    { [prompt |-> p, is_gemini_i2i |-> b] : p \in {<<"a">>, <<"b">>},
                                           b \in BOOLEAN }

\* what the calls of one attempt come to: the prompt enhancement; the
\* statements of the try block before media_repo.save (_generate_images,
\* which may also return no image, upscaling, presigned URLs); and the
\* construction of the response after media_repo.save
ImageOutcomes ==
    [enhance : {"ok", "raise"}, generate : {"images", "none", "raise"},
     respond : {"ok", "raise"}]

\* enhance_prompt_from_dto puts the instructions of image-to-image edits
\* before the prompt of the dto, in the dto itself
i2i_prompt(dto) ==
    IF dto.is_gemini_i2i THEN [dto EXCEPT !.prompt = <<"I">> \o @] ELSE dto

\* the structured prompt Gemini makes of the dto
structured_prompt(dto) == dto.prompt \o <<"!">>

\* the media item an attempt stores
MediaItemModel(user_email, rewritten_prompt, original_prompt) ==
    [user_email |-> user_email, prompt |-> rewritten_prompt,
     original_prompt |-> original_prompt, status |-> "COMPLETED"]

\* one execution of the body of generate_images on the request object the
\* caller passed
generate_images(request_dto, user_email, repo, o) ==
    IF o.enhance = "raise"
    THEN [request_dto |-> i2i_prompt(request_dto), repo |-> repo,
          result |-> Raise("Exception")]
    ELSE IF o.generate = "raise"
    THEN [request_dto |-> [request_dto EXCEPT !.prompt =
                               structured_prompt(i2i_prompt(request_dto))],
          repo |-> repo, result |-> Raise("Exception")]
    ELSE IF o.generate = "none"
    THEN [request_dto |-> [request_dto EXCEPT !.prompt =
                               structured_prompt(i2i_prompt(request_dto))],
          repo |-> repo, result |-> Ok("None")]
    ELSE [request_dto |-> [request_dto EXCEPT !.prompt =
                               structured_prompt(i2i_prompt(request_dto))],
          repo |-> Append(repo, MediaItemModel(user_email,
                       structured_prompt(i2i_prompt(request_dto)),
                       request_dto.prompt)),
          result |-> IF o.respond = "raise" THEN Raise("Exception")
                     ELSE Ok("MediaItemResponse")]

\* a caller calls generate_images
ImageBegin(request_dto, user_email) ==
    /\ image_call.pc = "idle"
    /\ image_call' = [pc |-> "retry", request_dto |-> request_dto,
                      user_email |-> user_email,
                      submitted |-> request_dto.prompt,
                      attempts |-> << >>]
    /\ UNCHANGED << cfg, media_repo, app_state, sessions, lifespan, retrying,
                    store, handler, n_calls, api_response, pool_queue,
                    pool_running, topic, n_deliveries, processing, response,
                    transitions >>

\* the body of generate_images is executed once more
ImageAttempt(o) ==
    /\ image_call.pc = "retry"
    /\ \E r \in {generate_images(image_call.request_dto,
                     image_call.user_email, media_repo, o)} :
          /\ media_repo' = r.repo
          /\ \E attempts \in {Append(image_call.attempts, r.result)} :
                image_call' = [image_call EXCEPT
                                  !.request_dto = r.request_dto,
                                  !.attempts = attempts,
                                  !.pc = after_attempt(attempts)]
    /\ UNCHANGED << cfg, app_state, sessions, lifespan, retrying, store,
                    handler, n_calls, api_response, pool_queue, pool_running,
                    topic, n_deliveries, processing, response, transitions >>

ImageNext ==
    \/ \E request_dto \in ImageRequests, user_email \in Users :
          ImageBegin(request_dto, user_email)
    \/ \E o \in ImageOutcomes : ImageAttempt(o)

ImageSpec == Init /\ [][ImageNext]_vars

\* C33: every media item generate_images has stored has as original_prompt
\* the prompt the caller submitted, and between attempts the prompt of the
\* request is the one the caller submitted
C33_OriginalPromptIsSubmitted ==
    /\ \A i \in DOMAIN media_repo :
           media_repo[i].original_prompt = image_call.submitted
    /\ image_call.pc = "retry" =>
           image_call.request_dto.prompt = image_call.submitted

\* C34: one call of generate_images stores at most one media item, and a
\* call that returned None has stored none
C34_AtMostOneItemSaved ==
    /\ Len(media_repo) <= 1
    /\ (/\ image_call.pc = "returned"
        /\ image_call.attempts[Len(image_call.attempts)].val = "None") =>
           Len(media_repo) = 0

(***************************************************************************)
(* The Mesop front end: auth_proxy and on_load.                            *)
(***************************************************************************)
\* the user agents a request can carry
UserAgents == {"firefox", "chrome"}

\* the X-Goog-Authenticated-User-Email header of a user's requests, as its
\* parts between colons
email_header(u) == << "accounts.google.com", u >>

\* UserInfo(email=user_email_header.split(":")[-1], agent=user_agent)
UserInfo(header, user_agent) ==
    [set |-> TRUE, email |-> header[Len(header)], agent |-> user_agent]

\* GET /__/auth/ of a user: user_info of the application is set from the
\* headers of the request and the browser is sent to /home, where a new
\* session begins
auth_proxy(u, user_agent) ==
    /\ app_state' = UserInfo(email_header(u), user_agent)
    /\ sessions' = [sessions EXCEPT ![u] =
                       [loaded |-> FALSE, user_email |-> "",
                        user_agent |-> "",
                        auth |-> UserInfo(email_header(u), user_agent)]]
    /\ UNCHANGED << cfg, image_call, media_repo, lifespan, retrying, store,
                    handler, n_calls, api_response, pool_queue, pool_running,
                    topic, n_deliveries, processing, response, transitions >>

\* a page of a user's session loads: the state of the session takes the
\* user_info of the application, or empty texts when there is none
on_load(u) ==
    /\ sessions' = [sessions EXCEPT ![u] =
                       [@ EXCEPT !.loaded = TRUE,
                                 !.user_email = IF app_state.set
                                                THEN app_state.email ELSE "",
                                 !.user_agent = IF app_state.set
                                                THEN app_state.agent ELSE ""]]
    /\ UNCHANGED << cfg, image_call, media_repo, app_state, lifespan,
                    retrying, store, handler, n_calls, api_response,
                    pool_queue, pool_running, topic, n_deliveries, processing,
                    response, transitions >>

MesopNext ==
    \/ \E u \in Users, user_agent \in UserAgents : auth_proxy(u, user_agent)
    \/ \E u \in Users : on_load(u)

MesopSpec == Init /\ [][MesopNext]_vars

\* C35: a session that was established by an auth request of its user and
\* has loaded a page holds the email and the user agent of that request,
\* whatever requests of other users came between
C35_SessionHoldsOwnIdentity ==
    \A u \in Users :
        (sessions[u].loaded /\ sessions[u].auth.set) =>
            /\ sessions[u].user_email = sessions[u].auth.email
            /\ sessions[u].user_agent = sessions[u].auth.agent

====
